---- MODULE Spec2Model ----
(***************************************************************************)
(* A model of bdragon/dedup: the digest index (Sums), the hashing worker   *)
(* pool (chanFilter), the directory walker (dirReader), the error merger   *)
(* (mergeErrors) and the supervisor loop (run).                            *)
(*                                                                         *)
(*   SpecSums  the index alone, driven by concurrent callers of Append     *)
(*   Spec      stream mode: Filter = readLines -> chanFilter -> run        *)
(*   SpecDir   directory mode: FilterDir = dirReader -> chanFilter -> run, *)
(*             the two error streams merged by mergeErrors                 *)
(***************************************************************************)
EXTENDS Integers, Sequences, FiniteSets, Bags, TLC

(***************************************************************************)
(* Bounds of the model.                                                    *)
(***************************************************************************)
\* goroutines that call Sums.Append concurrently (P of TestSumsConcurrent)
NumAppenders == 3
\* Append calls each of them makes
MaxCalls == 1

Appenders == 1..NumAppenders

\* contents of the files the callers of SpecSums append
Contents == {"x", "y"}

VARIABLES
    \* ---- Sums (src/sums.go:36-40)
    m,          \* s.m: digest -> sequence of files; DOMAIN m = the keys present
    r,          \* s.r: Stats
    mu,         \* s.mu: 0 when free, else the goroutine holding it
    \* ---- callers of Append in SpecSums
    apc,        \* position of each caller inside Append
    aarg,       \* the (sum, file) of the call in progress
    afiles,     \* the locals files, ok of line 71
    adup,       \* the named result dup
    apre,       \* the bucket of the call's digest when the call took the mutex
    hist        \* the completed calls of each caller, in order: arguments,
                \* result, and the bucket as it was when the call began

VARIABLES
    \* ---- Options, and the caller's cancel channel
    opts,       \* the Options record (a writer is TRUE when it is not nil)
    extCancel,  \* opts.Cancel has been closed
    \* ---- readLines (stream mode)
    src,        \* the goroutine of readLines: position, pending line, lines read
    \* ---- chanFilter
    inClosed,   \* f.in has been closed
    hw,         \* the worker goroutines: position, path in hand, value to emit
    busyProcs,  \* f.busyProcs
    cancelF,    \* f.cancel: how often its channel has been closed
    uniq,       \* f.uniq: the buffered paths
    dup,        \* f.dup
    closed,     \* which of f.uniq, f.dup, f.err have been closed
    closer,     \* the goroutine of Start that waits and closes
    \* ---- run
    sup,        \* the supervisor: position, errors, events handled
    sink,       \* what was written to UniqWriter, DupWriter, ErrWriter
    \* ---- observation
    ev,         \* what the workers did: values sent on each stream, errors
                \* raised, emissions abandoned, paths taken from f.in
    \* ---- dirReader (directory mode)
    root,       \* r.root
    inq,        \* r.out, which is f.in: the buffered paths
    wk,         \* the walker goroutines: position, call stack of handle
    queue,      \* r.queue: the buffered directories
    busyDirs,   \* r.busyDirs
    busyProcsR, \* r.busyProcs
    cancelR,    \* r.cancel: how often its channel has been closed
    starter,    \* the goroutine of dirReader.Start that submits the root
    \* ---- mergeErrors, dirFilter.Cancel
    mux,        \* the two multiplex goroutines: position, error in hand
    merger,     \* wg of mergeErrors, and the goroutine that closes out
    can,        \* the two goroutines of dirFilter.Cancel
    \* ---- callers of Cancel in SpecCancel
    cn          \* each caller: position, component, completed calls

VARIABLES
    \* ---- the input of readLines and what it has sent (SpecInput)
    rin,        \* the lines of the reader given to Filter, in order
    rout,       \* the lines received from the channel of readLines, in order
    \* ---- Sums.WriteAllDup (SpecSums)
    wout,       \* the last call: the index it saw and the lines it wrote
    \* ---- the sizes of the worker pools (SpecProcs)
    maxProcs,   \* var maxProcs = runtime.GOMAXPROCS(0)
    procs,      \* the workers given to each component that was built
    \* ---- the file system the program reads (filesys.OS())
    fs          \* path -> entry; no step changes it

sumsVars == <<m, r, mu>>
appVars == <<apc, aarg, afiles, adup, apre, hist>>
pipeVars == <<opts, extCancel, src, inClosed, hw, busyProcs, cancelF, uniq, dup,
              closed, closer, sup, sink, ev>>
dirVars == <<root, inq, wk, queue, busyDirs, busyProcsR, cancelR, starter, mux,
             merger, can>>
auxVars == <<rin, rout, wout, maxProcs, procs, fs>>
vars == <<sumsVars, appVars, pipeVars, dirVars, cn, auxVars>>

(***************************************************************************)
(* Pure helpers.                                                           *)
(***************************************************************************)
RECURSIVE SumSeq(_)
SumSeq(s) == IF s = <<>> THEN 0 ELSE Head(s) + SumSeq(Tail(s))

RECURSIVE SumOver(_, _)
\* the sum of f[x] over the x in S
SumOver(f, S) ==
    IF S = {} THEN 0
    ELSE LET x == CHOOSE y \in S : TRUE IN f[x] + SumOver(f, S \ {x})

\* sha1.Sum: injective on the contents of the model
Sha1(content) == <<"sha1", content>>

\* len(contents): the size os.FileInfo reports for a regular file
SizeOfContent(content) ==
    CASE content = "x" -> 1
      [] content = "y" -> 2
      [] OTHER -> 3

Digests == {Sha1(c) : c \in Contents}

(***************************************************************************)
(* Sums (src/sums.go).                                                     *)
(***************************************************************************)
NoStats == [NumFiles |-> 0, NumBytes |-> 0, NumDupFiles |-> 0, NumDupBytes |-> 0]

\* NewSums: an empty map, zero Stats
NewSumsM == << >>

\* lines 66-69: numBytes := file.Info.Size(); NumFiles++; NumBytes += numBytes
CountFile(st, file) ==
    [st EXCEPT !.NumFiles = @ + 1, !.NumBytes = @ + file.size]

\* line 71: files, ok := s.m[sum]
LookupOk(mm, sum) == sum \in DOMAIN mm
LookupFiles(mm, sum) == IF sum \in DOMAIN mm THEN mm[sum] ELSE << >>

\* lines 72 and 77: the map after the store
StoreMap(mm, sum, files, ok, file) ==
    IF ok THEN [d \in DOMAIN mm |-> IF d = sum THEN Append(files, file) ELSE mm[d]]
    ELSE [d \in DOMAIN mm \cup {sum} |-> IF d = sum THEN <<file>> ELSE mm[d]]

\* lines 73-74: the duplicate counters
StoreStatsUnguarded(st, ok, file) ==
    [st EXCEPT !.NumDupFiles = @ + 1, !.NumDupBytes = @ + file.size]

StoreStats(st, ok, file) ==
    IF ok THEN [st EXCEPT !.NumDupFiles = @ + 1, !.NumDupBytes = @ + file.size]
    ELSE st

\* lines 75-79: the result
StoreDupAlways(ok) == TRUE

StoreDup(ok) == ok

(***************************************************************************)
(* The file system (src/filesys/filesys.go): a fixed tree.  A path is the  *)
(* sequence of its names, so filepath.Join(path, name) is Append.          *)
(*                                                                         *)
(*   d/e (open: permission denied)   d/g (listed in d, gone at lstat)      *)
(*   d/s/c "x"   d/u/c "x"   t "y"   l -> t   and nothing at nx            *)
(*   p/c "x"   p/q/c "x"                     k -> nx                       *)
(*   w/e (open: permission denied)   w/g (listed in w, gone at lstat)      *)
(*   w/n (a directory that cannot be listed)   w/n/c "x"   w/q/c "y"       *)
(***************************************************************************)
NoErr == << >>

RegFile(c) == [kind |-> "file", content |-> c, target |-> << >>, names |-> << >>,
               denied |-> FALSE]
DeniedFile(c) == [RegFile(c) EXCEPT !.denied = TRUE]
SymLink(t) == [RegFile("") EXCEPT !.kind = "link", !.target = t]
Directory(ns) == [RegFile("") EXCEPT !.kind = "dir", !.names = ns]
DeniedDir(ns) == [Directory(ns) EXCEPT !.denied = TRUE]

TreeD ==
    (<<"d">> :> Directory(<<"e", "g", "s", "u">>))
    @@ (<<"d", "e">> :> DeniedFile("z"))
    @@ (<<"d", "s">> :> Directory(<<"c">>))
    @@ (<<"d", "s", "c">> :> RegFile("x"))
    @@ (<<"d", "u">> :> Directory(<<"c">>))
    @@ (<<"d", "u", "c">> :> RegFile("x"))

TreeP ==
    (<<"p">> :> Directory(<<"c", "q">>))
    @@ (<<"p", "c">> :> RegFile("x"))
    @@ (<<"p", "q">> :> Directory(<<"c">>))
    @@ (<<"p", "q", "c">> :> RegFile("x"))

TreeW ==
    (<<"w">> :> Directory(<<"e", "g", "n", "q">>))
    @@ (<<"w", "e">> :> DeniedFile("z"))
    @@ (<<"w", "n">> :> DeniedDir(<<"c">>))
    @@ (<<"w", "n", "c">> :> RegFile("x"))
    @@ (<<"w", "q">> :> Directory(<<"c">>))
    @@ (<<"w", "q", "c">> :> RegFile("y"))

TopLevel ==
    (<<"t">> :> RegFile("y"))
    @@ (<<"l">> :> SymLink(<<"t">>))
    @@ (<<"k">> :> SymLink(<<"nx">>))

FsPaths == DOMAIN TreeD \cup DOMAIN TreeP \cup DOMAIN TreeW \cup DOMAIN TopLevel

FS ==
    [p \in FsPaths |->
        CASE p \in DOMAIN TreeD -> TreeD[p]
          [] p \in DOMAIN TreeP -> TreeP[p]
          [] p \in DOMAIN TreeW -> TreeW[p]
          [] OTHER -> TopLevel[p]]

\* os.FileInfo.Size()
FsSize(path) ==
    CASE fs[path].kind = "file" -> SizeOfContent(fs[path].content)
      [] fs[path].kind = "link" -> Len(fs[path].target)
      [] OTHER -> 0

\* FileSystem.Lstat: the entry itself, a link is not followed
FsLstat(path) ==
    IF path \in DOMAIN fs
    THEN [err |-> NoErr, isDir |-> fs[path].kind = "dir",
          isLink |-> fs[path].kind = "link", size |-> FsSize(path)]
    ELSE [err |-> <<"lstat", path>>, isDir |-> FALSE, isLink |-> FALSE, size |-> 0]

\* FileSystem.Readdirnames: the sorted names of a directory
FsReaddirnames(path) ==
    IF path \in DOMAIN fs /\ fs[path].kind = "dir" /\ ~fs[path].denied
    THEN [err |-> NoErr, names |-> fs[path].names]
    ELSE [err |-> <<"readdirnames", path>>, names |-> << >>]

\* FileSystem.Readlink
FsReadlink(path) ==
    IF path \in DOMAIN fs /\ fs[path].kind = "link"
    THEN [err |-> NoErr, target |-> fs[path].target]
    ELSE [err |-> <<"readlink", path>>, target |-> << >>]

\* what os.Open reaches: links are followed by the operating system
RECURSIVE FsResolve(_, _)
FsResolve(path, depth) ==
    IF path \in DOMAIN fs /\ fs[path].kind = "link" /\ depth > 0
    THEN FsResolve(fs[path].target, depth - 1)
    ELSE path

\* FileSystem.Open followed by buf.ReadFrom(file)
FsOpenRead(path) ==
    LET q == FsResolve(path, Cardinality(DOMAIN fs)) IN
    IF q \notin DOMAIN fs \/ fs[q].kind = "link"
    THEN [err |-> <<"open", path>>, content |-> ""]
    ELSE IF fs[q].denied THEN [err |-> <<"open", path>>, content |-> ""]
    ELSE IF fs[q].kind = "dir" THEN [err |-> <<"read", path>>, content |-> ""]
    ELSE [err |-> NoErr, content |-> fs[q].content]

\* lstat (src/unnamed/part_001:164-177)
lstat(path, followSymlinks) ==
    LET first == FsLstat(path) IN
    IF first.err # NoErr THEN [err |-> first.err, newPath |-> << >>, info |-> first]
    ELSE IF followSymlinks /\ first.isLink
    THEN LET l == FsReadlink(path) IN
         IF l.err # NoErr THEN [err |-> l.err, newPath |-> l.target, info |-> first]
         ELSE LET second == FsLstat(l.target) IN
              [err |-> second.err, newPath |-> l.target, info |-> second]
    ELSE [err |-> NoErr, newPath |-> path, info |-> first]

(***************************************************************************)
(* chanFilter.handle up to the call of Append (src/bufferpool.go:136-162): *)
(* what one path comes to.  Nothing here reads shared state.               *)
(***************************************************************************)
HandleOutcomeSilent(path, followSymlinks) ==
    LET st == lstat(path, followSymlinks) IN
    IF st.err # NoErr \/ st.info.isDir THEN [kind |-> "dir"]
    ELSE LET rd == FsOpenRead(st.newPath) IN
         IF rd.err # NoErr THEN [kind |-> "dir"]
         ELSE [kind |-> "file", sum |-> Sha1(rd.content),
               file |-> [path |-> st.newPath, size |-> st.info.size]]

HandleOutcome(path, followSymlinks) ==
    LET st == lstat(path, followSymlinks) IN
    IF st.err # NoErr THEN [kind |-> "err", err |-> st.err]
    ELSE IF st.info.isDir THEN [kind |-> "dir"]
    ELSE LET rd == FsOpenRead(st.newPath) IN
         IF rd.err # NoErr THEN [kind |-> "err", err |-> rd.err]
         ELSE [kind |-> "file", sum |-> Sha1(rd.content),
               file |-> [path |-> st.newPath, size |-> st.info.size]]

\* Sums.Append as one step: the mutex makes the steps of one call contiguous
SumsAppendMFirstOnly(mm, sum, file) ==
    IF LookupOk(mm, sum) THEN mm
    ELSE StoreMap(mm, sum, LookupFiles(mm, sum), LookupOk(mm, sum), file)

SumsAppendM(mm, sum, file) ==
    StoreMap(mm, sum, LookupFiles(mm, sum), LookupOk(mm, sum), file)
SumsAppendR(mm, st, sum, file) ==
    StoreStats(CountFile(st, file), LookupOk(mm, sum), file)
SumsAppendDup(mm, sum) == StoreDup(LookupOk(mm, sum))

(***************************************************************************)
(* The pipeline as constructed (newChanFilter, readLines), before Start.   *)
(***************************************************************************)
\* f.numProcs: the worker goroutines of the hashing pool
NumProcs == 2
\* r.numProcs: the worker goroutines of the walker
NumWalkers == 1
\* lines the reader of Filter holds at most
MaxLines == 3

\* goroutines that call Cancel concurrently in SpecCancel
NumCancellers == 2
\* Cancel calls each of them makes
MaxCancels == 2

\* the values of GOMAXPROCS: 1..MaxParallel
MaxParallel == 32

Workers == 1..NumProcs
Cancellers == 1..NumCancellers
Walkers == 1..NumWalkers

\* cap(r.queue), cap(r.out): make(chan string, r.numProcs)
WalkCap == NumWalkers

Sources == {"r", "f"}

\* cap(f.uniq), cap(f.dup): make(chan string, f.numProcs)
OutCap == NumProcs

\* the lines the reader may hold; << >> is an empty line
Lines == {<<"d", "s", "c">>, <<"d", "u", "c">>, <<"t">>, <<"d", "e">>, <<"d", "s">>, << >>}

NoOpts == [FollowSymlinks |-> FALSE, Recursive |-> FALSE, ExitOnError |-> FALSE,
           ExitOnDup |-> FALSE, UniqWriter |-> FALSE, DupWriter |-> FALSE,
           ErrWriter |-> FALSE]

\* the Options the runs are checked with
OptionSets ==
    {[NoOpts EXCEPT !.ExitOnError = e, !.ExitOnDup = d,
                    !.UniqWriter = w, !.DupWriter = w, !.ErrWriter = w] :
        e \in BOOLEAN, d \in BOOLEAN, w \in BOOLEAN}

NoEvents == [uniq |-> EmptyBag, dup |-> EmptyBag, err |-> EmptyBag,
             raised |-> EmptyBag, dropped |-> EmptyBag, taken |-> EmptyBag,
             self |-> 0]

BagAdd(b, x) == b (+) SetToBag({x})

\* the values of a sequence, each as often as it occurs
SeqToBag(q) ==
    [x \in {q[i] : i \in 1..Len(q)} |-> Cardinality({i \in 1..Len(q) : q[i] = x})]

\* start is where run begins: f.Start() of a chanFilter or of a dirFilter
PipeNew(o, start) ==
    /\ opts = o
    /\ extCancel = FALSE
    /\ src = [pc |-> "scan", line |-> << >>, n |-> 0]
    /\ inClosed = FALSE
    /\ hw = [w \in Workers |-> [pc |-> "new", path |-> << >>, out |-> << >>]]
    /\ busyProcs = 0
    /\ cancelF = 0
    /\ uniq = << >>
    /\ dup = << >>
    /\ closed = [uniq |-> FALSE, dup |-> FALSE, err |-> FALSE,
                 done |-> FALSE, rerr |-> FALSE, merged |-> FALSE]
    /\ closer = "new"
    /\ sup = [pc |-> start, errors |-> << >>, first |-> NoErr, after |-> 0]
    /\ sink = [uniq |-> << >>, dup |-> << >>, err |-> << >>]
    /\ ev = NoEvents

\* a caller of Cancel that has not called yet
NoCall == [pc |-> "idle", comp |-> "", calls |-> 0]

\* no dirReader, no mergeErrors: Filter, or the index alone
DirIdle ==
    /\ root = << >>
    /\ inq = << >>
    /\ wk = [k \in Walkers |-> [pc |-> "new", cur |-> << >>, val |-> << >>,
                                 after |-> "", stack |-> << >>]]
    /\ queue = << >>
    /\ busyDirs = 0
    /\ busyProcsR = 0
    /\ cancelR = 0
    /\ starter = "new"
    /\ mux = [i \in Sources |-> [pc |-> "new", val |-> << >>]]
    /\ merger = [wg |-> 0, pc |-> "new"]
    /\ can = [i \in Sources |-> "new"]
    /\ cn = [c \in Cancellers |-> NoCall]

\* nothing was written by WriteAllDup, no component was built yet
NoOutput == [called |-> FALSE, at |-> << >>, lines |-> << >>, err |-> FALSE]
NoProcs == [walkers |-> 0, hashers |-> 0, mode |-> "none"]

\* the file system, and the state of the parts a specification does not run
AuxIdle ==
    /\ fs = FS
    /\ rin = << >>
    /\ rout = << >>
    /\ wout = NoOutput
    /\ maxProcs = 0
    /\ procs = NoProcs

(***************************************************************************)
(* SpecSums: NumAppenders goroutines call Append, each up to MaxCalls      *)
(* times, with any digest; the k-th file of caller p has the path <<p, k>>.*)
(***************************************************************************)
NoArg == [sum |-> Sha1(""), file |-> [path |-> << >>, size |-> 0]]

\* the size of the k-th file of caller p (Append does not look at the content)
AppFileSize(p, k) == p + k - 1

InitApp ==
    /\ apc = [p \in Appenders |-> "idle"]
    /\ aarg = [p \in Appenders |-> NoArg]
    /\ afiles = [p \in Appenders |-> [ok |-> FALSE, files |-> << >>]]
    /\ adup = [p \in Appenders |-> FALSE]
    /\ apre = [p \in Appenders |-> << >>]
    /\ hist = [p \in Appenders |-> << >>]

\* s.mu.Lock() is granted when the mutex is free
MutexFreeAlways(holder) == TRUE

MutexFree(holder) == holder = 0

\* line 63: the call Append(sum, file) takes the mutex
AppendLock(p, c) ==
    /\ apc[p] = "idle"
    /\ Len(hist[p]) < MaxCalls
    /\ MutexFree(mu)
    /\ mu' = p
    /\ aarg' = [aarg EXCEPT ![p] =
                  [sum |-> Sha1(c),
                   file |-> [path |-> <<p, Len(hist[p]) + 1>>,
                             size |-> AppFileSize(p, Len(hist[p]) + 1)]]]
    /\ apre' = [apre EXCEPT ![p] = LookupFiles(m, Sha1(c))]
    /\ apc' = [apc EXCEPT ![p] = "count"]
    /\ UNCHANGED <<m, r, afiles, adup, hist>>
    /\ UNCHANGED <<pipeVars, dirVars, cn, auxVars>>

\* lines 66-69
AppendCount(p) ==
    /\ apc[p] = "count"
    /\ r' = CountFile(r, aarg[p].file)
    /\ apc' = [apc EXCEPT ![p] = "lookup"]
    /\ UNCHANGED <<m, mu, aarg, afiles, adup, apre, hist>>
    /\ UNCHANGED <<pipeVars, dirVars, cn, auxVars>>

\* line 71
AppendLookup(p) ==
    /\ apc[p] = "lookup"
    /\ afiles' = [afiles EXCEPT ![p] =
                    [ok |-> LookupOk(m, aarg[p].sum), files |-> LookupFiles(m, aarg[p].sum)]]
    /\ apc' = [apc EXCEPT ![p] = "store"]
    /\ UNCHANGED <<m, r, mu, aarg, adup, apre, hist>>
    /\ UNCHANGED <<pipeVars, dirVars, cn, auxVars>>

\* lines 72-78
AppendStore(p) ==
    /\ apc[p] = "store"
    /\ m' = StoreMap(m, aarg[p].sum, afiles[p].files, afiles[p].ok, aarg[p].file)
    /\ r' = StoreStats(r, afiles[p].ok, aarg[p].file)
    /\ adup' = [adup EXCEPT ![p] = StoreDup(afiles[p].ok)]
    /\ apc' = [apc EXCEPT ![p] = "unlock"]
    /\ UNCHANGED <<mu, aarg, afiles, apre, hist>>
    /\ UNCHANGED <<pipeVars, dirVars, cn, auxVars>>

\* lines 64 and 79: the deferred Unlock, and the return
AppendUnlock(p) ==
    /\ apc[p] = "unlock"
    /\ mu' = 0
    /\ hist' = [hist EXCEPT ![p] =
                  Append(@, [sum |-> aarg[p].sum, file |-> aarg[p].file,
                             dup |-> adup[p], pre |-> apre[p]])]
    /\ apc' = [apc EXCEPT ![p] = "idle"]
    /\ UNCHANGED <<m, r, aarg, afiles, adup, apre>>
    /\ UNCHANGED <<pipeVars, dirVars, cn, auxVars>>

\* ---- Sums.WriteAllDup (src/sums.go:112-139)

\* sort.Strings compares byte by byte; a path of this specification is a
\* sequence of numbers, compared position by position
StringLess(a, b) ==
    \E i \in 1..Len(b) :
        /\ \A j \in 1..(i - 1) : j <= Len(a) /\ a[j] = b[j]
        /\ (i > Len(a) \/ (i - 1 < Len(a) /\ a[i] < b[i]))

RECURSIVE InsertString(_, _)
InsertString(x, sorted) ==
    IF sorted = << >> THEN <<x>>
    ELSE IF StringLess(x, Head(sorted)) THEN <<x>> \o sorted
    ELSE <<Head(sorted)>> \o InsertString(x, Tail(sorted))

RECURSIVE SortStrings(_)
SortStrings(paths) ==
    IF paths = << >> THEN << >>
    ELSE InsertString(Head(paths), SortStrings(Tail(paths)))

\* lines 132-139: the paths of the files, copied and sorted
sortedPathsAsStored(files) == [i \in 1..Len(files) |-> files[i].path]

sortedPaths(files) == SortStrings([i \in 1..Len(files) |-> files[i].path])

\* lines 114-126: what the callback writes for one bucket: "%x:\n" of the sum
\* and "- %q\n" of each path, if the bucket has more than one file
GroupLines(sum, files) ==
    IF Len(files) > 1
    THEN <<<<"sum", sum>>>> \o
         [i \in 1..Len(files) |-> <<"path", sortedPaths(files)[i]>>]
    ELSE << >>

\* range s.m visits every key once, in an order the runtime chooses
RangeOrders(mm) ==
    {o \in [1..Cardinality(DOMAIN mm) -> DOMAIN mm] :
        \A i, j \in DOMAIN o : i # j => o[i] # o[j]}

RECURSIVE AllDupLines(_, _)
AllDupLines(mm, order) ==
    IF order = << >> THEN << >>
    ELSE GroupLines(Head(order), mm[Head(order)]) \o AllDupLines(mm, Tail(order))

\* one call of WriteAllDup: Range holds the mutex from the first bucket to
\* the last, so no Append runs in between.  The writer takes every line, or
\* fails at some line, which ends the call with the error.
WriteAllDup ==
    /\ MutexFree(mu)
    /\ \E o \in RangeOrders(m) :
        LET full == AllDupLines(m, o) IN
        \E n \in 0..Len(full) :
            wout' = [called |-> TRUE, at |-> m, lines |-> SubSeq(full, 1, n),
                     err |-> n < Len(full)]
    /\ UNCHANGED <<m, r, mu, appVars>>
    /\ UNCHANGED <<pipeVars, dirVars, cn, rin, rout, maxProcs, procs, fs>>

InitSumsSpec ==
    /\ m = NewSumsM
    /\ r = NoStats
    /\ mu = 0
    /\ InitApp
    /\ PipeNew(NoOpts, "startF")
    /\ DirIdle
    /\ AuxIdle

NextSums ==
    \E p \in Appenders :
        \/ \E c \in Contents : AppendLock(p, c)
        \/ AppendCount(p)
        \/ AppendLookup(p)
        \/ AppendStore(p)
        \/ AppendUnlock(p)

SpecSums == InitSumsSpec /\ [][NextSums]_vars

\* the callers of Append, and a caller of WriteAllDup at any time
NextWrite ==
    \/ NextSums
    \/ WriteAllDup

SpecWrite == InitSumsSpec /\ [][NextWrite]_vars

(***************************************************************************)
(* Claims about the index, checked under SpecSums.                         *)
(***************************************************************************)
AllIdle == \A p \in Appenders : apc[p] = "idle"

\* the completed calls Append(d, _), as <<caller, index>>
CallsOn(d) == {c \in Appenders \X (1..MaxCalls) :
                  /\ c[2] <= Len(hist[c[1]])
                  /\ hist[c[1]][c[2]].sum = d}

CallOf(c) == hist[c[1]][c[2]]

BucketLen(d) == IF d \in DOMAIN m THEN Len(m[d]) ELSE 0

\* C1: when the concurrent calls Append(d, _) on an index that held no entry
\* for d have all returned, exactly one of them returned false, the others
\* returned true, and the bucket of d holds one entry per call.
C1_OneFirstAppend ==
    AllIdle =>
        \A d \in Digests :
            CallsOn(d) # {} =>
                /\ Cardinality({c \in CallsOn(d) : ~CallOf(c).dup}) = 1
                /\ Cardinality({c \in CallsOn(d) : CallOf(c).dup})
                       = Cardinality(CallsOn(d)) - 1
                /\ BucketLen(d) = Cardinality(CallsOn(d))

\* every caller has appended under one digest, and all calls have returned
C1_Witness ==
    /\ AllIdle
    /\ \E d \in Digests :
          /\ \A p \in Appenders : \E i \in 1..Len(hist[p]) : hist[p][i].sum = d
          /\ BucketLen(d) >= NumAppenders

\* C2: Append returns true iff the bucket of the digest held an entry just
\* before the call, and the file is stored right after the entries the bucket
\* held then (buckets keep insertion order).
C2_DupIffPresent ==
    \A p \in Appenders : \A i \in 1..Len(hist[p]) :
        LET c == hist[p][i] IN
        /\ c.dup <=> Len(c.pre) >= 1
        /\ c.sum \in DOMAIN m
        /\ Len(m[c.sum]) >= Len(c.pre) + 1
        /\ SubSeq(m[c.sum], 1, Len(c.pre) + 1) = Append(c.pre, c.file)

\* one call returned false and a later call on the same digest returned true
C2_Witness ==
    \E p, q \in Appenders : \E i \in 1..Len(hist[p]) : \E j \in 1..Len(hist[q]) :
        /\ ~hist[p][i].dup
        /\ hist[q][j].dup
        /\ hist[q][j].sum = hist[p][i].sum
        /\ hist[q][j].pre # << >>

FileSizes(files) == [i \in 1..Len(files) |-> files[i].size]

\* C3: whenever no Append is in progress, the counters agree with the buckets
\* and no bucket is empty.
C3_StatsConsistent ==
    mu = 0 =>
        /\ r.NumFiles = SumOver([d \in DOMAIN m |-> Len(m[d])], DOMAIN m)
        /\ r.NumDupFiles = SumOver([d \in DOMAIN m |-> Len(m[d]) - 1], DOMAIN m)
        /\ r.NumBytes = SumOver([d \in DOMAIN m |-> SumSeq(FileSizes(m[d]))], DOMAIN m)
        /\ r.NumDupBytes =
              SumOver([d \in DOMAIN m |-> SumSeq(FileSizes(Tail(m[d])))], DOMAIN m)
        /\ \A d \in DOMAIN m : m[d] # << >>

\* two buckets, one of them with a duplicate
C3_Witness ==
    /\ mu = 0
    /\ Cardinality(DOMAIN m) = 2
    /\ r.NumDupFiles >= 1
    /\ r.NumDupBytes >= 1

(***************************************************************************)
(* Stream mode: Filter (src/unnamed/part_001:46-52).                       *)
(***************************************************************************)
\* <-s.C() is ready once the channel of the signal has been closed
SignalClosed(c) == c > 0

CancelledNever == FALSE

Cancelled == SignalClosed(cancelF)

\* sync.WaitGroup.Wait returns when the counter is zero
WaitDoneEarly(n) == TRUE

WaitDone(n) == n = 0

\* a step of stream mode leaves the index's callers and the walker alone
idleRest == UNCHANGED <<mu, appVars, dirVars, cn, auxVars>>

\* ---- readLines (src/unnamed/part_001:144-158)

\* s.Scan() yields a non-empty line: the goroutine goes to send it
SrcScan(l) ==
    /\ src.pc = "scan"
    /\ src.n < MaxLines
    /\ l # << >>
    /\ src' = [pc |-> "send", line |-> l, n |-> src.n + 1]
    /\ UNCHANGED <<m, r, opts, extCancel, inClosed, hw, busyProcs, cancelF, uniq, dup,
                   closed, closer, sup, sink, ev>>
    /\ idleRest

\* s.Scan() is false, or the line is empty: break, and the deferred close(c)
SrcClose ==
    /\ src.pc = "scan"
    /\ src' = [src EXCEPT !.pc = "closed"]
    /\ inClosed' = TRUE
    /\ UNCHANGED <<m, r, opts, extCancel, hw, busyProcs, cancelF, uniq, dup,
                   closed, closer, sup, sink, ev>>
    /\ idleRest

\* ---- chanFilter workers (src/bufferpool.go:118-190)

\* case path, ok := <-f.in with ok: c is unbuffered, so the receive is the
\* send c <- line of readLines.  The select may take this case also when
\* f.cancel is closed.
WorkerRecv(w) ==
    /\ hw[w].pc = "select"
    /\ src.pc = "send"
    /\ hw' = [hw EXCEPT ![w] = [pc |-> "handle", path |-> src.line, out |-> << >>]]
    /\ src' = [src EXCEPT !.pc = "scan", !.line = << >>]
    /\ ev' = [ev EXCEPT !.taken = BagAdd(@, src.line)]
    /\ UNCHANGED <<m, r, opts, extCancel, inClosed, busyProcs, cancelF, uniq, dup,
                   closed, closer, sup, sink>>
    /\ idleRest

\* the worker returns; the deferred f.busyProcs.Done()
WorkerExit(w) ==
    /\ hw' = [hw EXCEPT ![w] = [pc |-> "exit", path |-> << >>, out |-> << >>]]
    /\ busyProcs' = busyProcs - 1

\* case path, ok := <-f.in with !ok
WorkerInClosed(w) ==
    /\ hw[w].pc = "select"
    /\ inClosed
    /\ inq = << >>
    /\ WorkerExit(w)
    /\ UNCHANGED <<m, r, opts, extCancel, src, inClosed, cancelF, uniq, dup,
                   closed, closer, sup, sink, ev>>
    /\ idleRest

\* case <-f.cancel.C()
WorkerCancelled(w) ==
    /\ hw[w].pc = "select"
    /\ Cancelled
    /\ WorkerExit(w)
    /\ UNCHANGED <<m, r, opts, extCancel, src, inClosed, cancelF, uniq, dup,
                   closed, closer, sup, sink, ev>>
    /\ idleRest

\* lines 164-168: which stream the path goes to
EmitStateSwapped(isDup) == IF isDup THEN "emitUniq" ELSE "emitDup"

EmitState(isDup) == IF isDup THEN "emitDup" ELSE "emitUniq"

\* handle(path) up to the emit: lstat, Open, ReadFrom, sha1.Sum, Append
WorkerHandle(w) ==
    /\ hw[w].pc = "handle"
    /\ LET o == HandleOutcome(hw[w].path, opts.FollowSymlinks) IN
       \/ /\ o.kind = "err"
          /\ hw' = [hw EXCEPT ![w] = [@ EXCEPT !.pc = "emitErr", !.out = o.err]]
          /\ ev' = [ev EXCEPT !.raised = BagAdd(@, o.err)]
          /\ UNCHANGED <<m, r>>
       \/ /\ o.kind = "dir"
          /\ hw' = [hw EXCEPT ![w] = [pc |-> "select", path |-> << >>, out |-> << >>]]
          /\ UNCHANGED <<m, r, ev>>
       \/ /\ o.kind = "file"
          /\ m' = SumsAppendM(m, o.sum, o.file)
          /\ r' = SumsAppendR(m, r, o.sum, o.file)
          /\ hw' = [hw EXCEPT ![w] = [@ EXCEPT !.pc = EmitState(SumsAppendDup(m, o.sum)),
                                               !.out = o.file.path]]
          /\ UNCHANGED ev
    /\ UNCHANGED <<opts, extCancel, src, inClosed, busyProcs, cancelF, uniq, dup,
                   closed, closer, sup, sink>>
    /\ idleRest

WorkerBack(w) == [hw EXCEPT ![w] = [pc |-> "select", path |-> << >>, out |-> << >>]]

\* emitUniq: case f.uniq <- path
WorkerEmitUniq(w) ==
    /\ hw[w].pc = "emitUniq"
    /\ Len(uniq) < OutCap
    /\ uniq' = Append(uniq, hw[w].out)
    /\ ev' = [ev EXCEPT !.uniq = BagAdd(@, hw[w].out)]
    /\ hw' = WorkerBack(w)
    /\ UNCHANGED <<m, r, opts, extCancel, src, inClosed, busyProcs, cancelF, dup,
                   closed, closer, sup, sink>>
    /\ idleRest

\* emitDup: case f.dup <- path
WorkerEmitDup(w) ==
    /\ hw[w].pc = "emitDup"
    /\ Len(dup) < OutCap
    /\ dup' = Append(dup, hw[w].out)
    /\ ev' = [ev EXCEPT !.dup = BagAdd(@, hw[w].out)]
    /\ hw' = WorkerBack(w)
    /\ UNCHANGED <<m, r, opts, extCancel, src, inClosed, busyProcs, cancelF, uniq,
                   closed, closer, sup, sink>>
    /\ idleRest

\* emitUniq, emitDup, emitErr: case <-f.cancel.C(), the value is given up
WorkerEmitCancelled(w) ==
    /\ hw[w].pc \in {"emitUniq", "emitDup", "emitErr"}
    /\ Cancelled
    /\ ev' = [ev EXCEPT !.dropped = BagAdd(@, hw[w].out)]
    /\ hw' = WorkerBack(w)
    /\ UNCHANGED <<m, r, opts, extCancel, src, inClosed, busyProcs, cancelF, uniq, dup,
                   closed, closer, sup, sink>>
    /\ idleRest

\* ---- the goroutine of Start (src/bufferpool.go:104-108)

\* f.busyProcs.Wait() returns; close(f.dup)
CloserCloseDup ==
    /\ closer = "wait"
    /\ WaitDone(busyProcs)
    /\ closed' = [closed EXCEPT !.dup = TRUE]
    /\ closer' = "closeErr"
    /\ UNCHANGED <<m, r, opts, extCancel, src, inClosed, hw, busyProcs, cancelF, uniq,
                   dup, sup, sink, ev>>
    /\ idleRest

\* close(f.err)
CloserCloseErr ==
    /\ closer = "closeErr"
    /\ closed' = [closed EXCEPT !.err = TRUE]
    /\ closer' = "done"
    /\ UNCHANGED <<m, r, opts, extCancel, src, inClosed, hw, busyProcs, cancelF, uniq,
                   dup, sup, sink, ev>>
    /\ idleRest

\* ---- run (src/unnamed/part_001:69-115)

\* f.Start(): busyProcs.Add(numProcs), the workers and the closing goroutine
SupStart ==
    /\ sup.pc = "startF"
    /\ busyProcs' = busyProcs + NumProcs
    /\ hw' = [w \in Workers |-> [pc |-> "select", path |-> << >>, out |-> << >>]]
    /\ closer' = "wait"
    /\ sup' = [sup EXCEPT !.pc = "loop"]
    /\ UNCHANGED <<m, r, opts, extCancel, src, inClosed, cancelF, uniq, dup, closed,
                   sink, ev>>
    /\ idleRest

\* the caller closes opts.Cancel
ExtCancel ==
    /\ ~extCancel
    /\ extCancel' = TRUE
    /\ UNCHANGED <<m, r, opts, src, inClosed, hw, busyProcs, cancelF, uniq, dup, closed,
                   closer, sup, sink, ev>>
    /\ idleRest

\* case <-opts.Cancel: on to f.Cancel()
SupCancelCase ==
    /\ sup.pc = "loop"
    /\ extCancel
    /\ sup' = [sup EXCEPT !.pc = "cancel"]
    /\ UNCHANGED <<m, r, opts, extCancel, src, inClosed, hw, busyProcs, cancelF, uniq,
                   dup, closed, closer, sink, ev>>
    /\ idleRest

\* fmt.Fprintln(w, v) when the writer w is not nil
WriteTo(out, configured, v) == IF configured THEN Append(out, v) ELSE out

\* line 85: errors = append(errors, err)
ErrorsAppend(errors, e) == Append(errors, e)

\* line 86: if opts.ExitOnError
ExitOnErrorNever(o) == FALSE

ExitOnErrorSet(o) == o.ExitOnError

\* line 97: if opts.ExitOnDup
ExitOnDupNever(o) == FALSE

ExitOnDupSet(o) == o.ExitOnDup

\* the supervisor has handled one more event
SupHandled(s) ==
    [s EXCEPT !.after = IF s.errors # << >> THEN @ + 1 ELSE @]

\* case err, ok := <-f.Err() with ok: f.err is unbuffered, so the receive is
\* the send f.err <- err of a worker in emitErr
SupRecvErr(w) ==
    /\ sup.pc = "loop"
    /\ hw[w].pc = "emitErr"
    /\ ~closed.err
    /\ hw' = WorkerBack(w)
    /\ ev' = [ev EXCEPT !.err = BagAdd(@, hw[w].out)]
    /\ sink' = [sink EXCEPT !.err = WriteTo(@, opts.ErrWriter, hw[w].out)]
    /\ sup' = [SupHandled(sup) EXCEPT
                 !.errors = ErrorsAppend(@, hw[w].out),
                 !.first = IF sup.first = NoErr THEN hw[w].out ELSE @,
                 !.pc = IF ExitOnErrorSet(opts) THEN "cancel" ELSE "loop"]
    /\ UNCHANGED <<m, r, opts, extCancel, src, inClosed, busyProcs, cancelF, uniq, dup,
                   closed, closer>>
    /\ idleRest

\* case err, ok := <-f.Err() with !ok
SupErrClosed ==
    /\ sup.pc = "loop"
    /\ closed.err
    /\ sup' = [sup EXCEPT !.pc = "done"]
    /\ UNCHANGED <<m, r, opts, extCancel, src, inClosed, hw, busyProcs, cancelF, uniq,
                   dup, closed, closer, sink, ev>>
    /\ idleRest

\* case path, ok := <-f.Dup() with ok
SupRecvDup ==
    /\ sup.pc = "loop"
    /\ dup # << >>
    /\ dup' = Tail(dup)
    /\ sink' = [sink EXCEPT !.dup = WriteTo(@, opts.DupWriter, Head(dup))]
    /\ sup' = [SupHandled(sup) EXCEPT
                 !.pc = IF ExitOnDupSet(opts) THEN "cancel" ELSE "loop"]
    /\ UNCHANGED <<m, r, opts, extCancel, src, inClosed, hw, busyProcs, cancelF, uniq,
                   closed, closer, ev>>
    /\ idleRest

\* case path, ok := <-f.Dup() with !ok: closed and drained
SupDupClosed ==
    /\ sup.pc = "loop"
    /\ dup = << >>
    /\ closed.dup
    /\ sup' = [sup EXCEPT !.pc = "done"]
    /\ UNCHANGED <<m, r, opts, extCancel, src, inClosed, hw, busyProcs, cancelF, uniq,
                   dup, closed, closer, sink, ev>>
    /\ idleRest

\* case path, ok := <-f.Uniq() with ok
SupRecvUniq ==
    /\ sup.pc = "loop"
    /\ uniq # << >>
    /\ uniq' = Tail(uniq)
    /\ sink' = [sink EXCEPT !.uniq = WriteTo(@, opts.UniqWriter, Head(uniq))]
    /\ sup' = SupHandled(sup)
    /\ UNCHANGED <<m, r, opts, extCancel, src, inClosed, hw, busyProcs, cancelF, dup,
                   closed, closer, ev>>
    /\ idleRest

\* signal.Once (src/unnamed/part_001:137-139): sync.Once closes s.c one time
SignalOnceAlways(c) == c + 1

SignalOnce(c) == IF c = 0 THEN 1 ELSE c

\* chanFilter.Cancel: f.cancel.Once()
SupCancelOnce ==
    /\ sup.pc = "cancel"
    /\ cancelF' = SignalOnce(cancelF)
    /\ sup' = [sup EXCEPT !.pc = "wait"]
    /\ UNCHANGED <<m, r, opts, extCancel, src, inClosed, hw, busyProcs, uniq, dup,
                   closed, closer, sink, ev>>
    /\ idleRest

\* chanFilter.Cancel: f.busyProcs.Wait() returns; break loop; run returns
SupCancelWait ==
    /\ sup.pc = "wait"
    /\ WaitDone(busyProcs)
    /\ sup' = [sup EXCEPT !.pc = "done"]
    /\ UNCHANGED <<m, r, opts, extCancel, src, inClosed, hw, busyProcs, cancelF, uniq,
                   dup, closed, closer, sink, ev>>
    /\ idleRest

Init ==
    /\ m = NewSumsM
    /\ r = NoStats
    /\ mu = 0
    /\ InitApp
    /\ \E o \in OptionSets : PipeNew(o, "startF")
    /\ DirIdle
    /\ AuxIdle

Next ==
    \/ \E l \in Lines : SrcScan(l)
    \/ SrcClose
    \/ \E w \in Workers :
        \/ WorkerRecv(w)
        \/ WorkerInClosed(w)
        \/ WorkerCancelled(w)
        \/ WorkerHandle(w)
        \/ WorkerEmitUniq(w)
        \/ WorkerEmitDup(w)
        \/ WorkerEmitCancelled(w)
        \/ SupRecvErr(w)
    \/ CloserCloseDup
    \/ CloserCloseErr
    \/ SupStart
    \/ ExtCancel
    \/ SupCancelCase
    \/ SupErrClosed
    \/ SupRecvDup
    \/ SupDupClosed
    \/ SupRecvUniq
    \/ SupCancelOnce
    \/ SupCancelWait

Spec == Init /\ [][Next]_vars

\* the Go scheduler runs a goroutine that can take a step: as long as some
\* goroutine of the run is not blocked, one of them eventually steps.  The
\* caller is not obliged to close opts.Cancel.
FairSpec == Spec /\ WF_vars(Next /\ extCancel' = extCancel)

(***************************************************************************)
(* Directory mode: FilterDir (src/unnamed/part_001:56-62), newDirFilter    *)
(* (src/bufferpool.go:204-210).                                            *)
(***************************************************************************)
\* the directories FilterDir is called with
Roots == {<<"d">>, <<"t">>, <<"nx">>}

\* the Options of the directory runs
DirOptionSets ==
    {[NoOpts EXCEPT !.Recursive = rec, !.ExitOnError = e, !.ExitOnDup = d,
                    !.UniqWriter = TRUE, !.DupWriter = TRUE, !.ErrWriter = TRUE] :
        rec \in BOOLEAN, e \in BOOLEAN, d \in BOOLEAN}

\* newDirFilter: newDirReader, newChanFilter on r.Out(), and mergeErrors,
\* which starts its goroutines at once
DirNew(rt) ==
    /\ root = rt
    /\ inq = << >>
    /\ wk = [k \in Walkers |-> [pc |-> "new", cur |-> << >>, val |-> << >>,
                                 after |-> "", stack |-> << >>]]
    /\ queue = << >>
    /\ busyDirs = 0
    /\ busyProcsR = 0
    /\ cancelR = 0
    /\ starter = "new"
    /\ mux = [i \in Sources |-> [pc |-> "recv", val |-> << >>]]
    /\ merger = [wg |-> Cardinality(Sources), pc |-> "wait"]
    /\ can = [i \in Sources |-> "new"]
    /\ cn = [c \in Cancellers |-> NoCall]

WalkerIdle == [pc |-> "select", cur |-> << >>, val |-> << >>, after |-> "",
               stack |-> << >>]

\* ---- dirReader workers (src/dirreader.go:67-150)

\* the worker returns; the deferred r.busyProcs.Done()
WkExit(k) ==
    /\ wk' = [wk EXCEPT ![k] = [WalkerIdle EXCEPT !.pc = "exit"]]
    /\ busyProcsR' = busyProcsR - 1

\* case <-r.cancel.C()
WkCancelled(k) ==
    /\ wk[k].pc = "select"
    /\ SignalClosed(cancelR)
    /\ WkExit(k)
    /\ UNCHANGED <<m, r, opts, extCancel, src, inClosed, hw, busyProcs,
                   cancelF, uniq, dup, closed, closer, sup, sink, ev, root,
                   inq, queue, busyDirs, cancelR, starter, mux, merger, can>>
    /\ UNCHANGED <<mu, appVars, cn, auxVars>>

\* case <-r.done
WkDone(k) ==
    /\ wk[k].pc = "select"
    /\ closed.done
    /\ WkExit(k)
    /\ UNCHANGED <<m, r, opts, extCancel, src, inClosed, hw, busyProcs,
                   cancelF, uniq, dup, closed, closer, sup, sink, ev, root,
                   inq, queue, busyDirs, cancelR, starter, mux, merger, can>>
    /\ UNCHANGED <<mu, appVars, cn, auxVars>>

\* case path := <-r.queue
WkRecv(k) ==
    /\ wk[k].pc = "select"
    /\ queue # << >>
    /\ queue' = Tail(queue)
    /\ wk' = [wk EXCEPT ![k] = [@ EXCEPT !.pc = "handle", !.cur = Head(queue)]]
    /\ UNCHANGED <<m, r, opts, extCancel, src, inClosed, hw, busyProcs,
                   cancelF, uniq, dup, closed, closer, sup, sink, ev, root,
                   inq, busyDirs, busyProcsR, cancelR, starter, mux, merger,
                   can>>
    /\ UNCHANGED <<mu, appVars, cn, auxVars>>

\* handle(path), lines 98-115: lstat; a file is emitted; a directory is listed
\* and gets a frame <<directory, names still to visit>> on the call stack
WkHandle(k) ==
    /\ wk[k].pc = "handle"
    /\ LET st == lstat(wk[k].cur, opts.FollowSymlinks)
           ls == FsReaddirnames(st.newPath)
           leaf == [dir |-> wk[k].cur, rest |-> << >>]
       IN  \/ /\ st.err # NoErr
              /\ wk' = [wk EXCEPT ![k] = [@ EXCEPT !.pc = "emitErr", !.val = st.err,
                                                   !.after = "return",
                                                   !.stack = <<leaf>> \o @]]
              /\ ev' = [ev EXCEPT !.raised = BagAdd(@, st.err)]
           \/ /\ st.err = NoErr /\ ~st.info.isDir
              /\ wk' = [wk EXCEPT ![k] = [@ EXCEPT !.pc = "emit", !.val = st.newPath,
                                                   !.after = "return",
                                                   !.stack = <<leaf>> \o @]]
              /\ UNCHANGED ev
           \/ /\ st.err = NoErr /\ st.info.isDir /\ ls.err # NoErr
              /\ wk' = [wk EXCEPT ![k] = [@ EXCEPT !.pc = "emitErr", !.val = ls.err,
                                                   !.after = "return",
                                                   !.stack = <<leaf>> \o @]]
              /\ ev' = [ev EXCEPT !.raised = BagAdd(@, ls.err)]
           \/ /\ st.err = NoErr /\ st.info.isDir /\ ls.err = NoErr
              /\ wk' = [wk EXCEPT ![k] =
                          [@ EXCEPT !.pc = "loop",
                                    !.stack = <<[dir |-> st.newPath, rest |-> ls.names]>> \o @]]
              /\ UNCHANGED ev
    /\ UNCHANGED <<m, r, opts, extCancel, src, inClosed, hw, busyProcs,
                   cancelF, uniq, dup, closed, closer, sup, sink, root, inq,
                   queue, busyDirs, busyProcsR, cancelR, starter, mux, merger,
                   can>>
    /\ UNCHANGED <<mu, appVars, cn, auxVars>>

\* lines 132-133: else if r.opts.Recursive { r.enqueue(fullPath) }
DescendsAlways(recursive) == TRUE

Descends(recursive) == recursive

\* lines 126-129: after the error of a child, continue with the next name
AfterChildErrorReturn == "return"

AfterChildError == "loop"

\* lines 117-135, one iteration: the loop ends, or the poll of r.cancel
\* returns, or the next child is examined
WkLoop(k) ==
    /\ wk[k].pc = "loop"
    /\ LET top == Head(wk[k].stack) IN
       IF top.rest = << >> \/ SignalClosed(cancelR)
       THEN /\ wk' = [wk EXCEPT ![k] = [@ EXCEPT !.pc = "return"]]
            /\ UNCHANGED ev
       ELSE LET fullPath == Append(top.dir, Head(top.rest))
                st == lstat(fullPath, opts.FollowSymlinks)
                popped == <<[top EXCEPT !.rest = Tail(@)]>> \o Tail(wk[k].stack)
            IN  \/ /\ st.err # NoErr
                   /\ wk' = [wk EXCEPT ![k] = [@ EXCEPT !.pc = "emitErr", !.val = st.err,
                                                        !.after = AfterChildError,
                                                        !.stack = popped]]
                   /\ ev' = [ev EXCEPT !.raised = BagAdd(@, st.err)]
                \/ /\ st.err = NoErr /\ ~st.info.isDir
                   /\ wk' = [wk EXCEPT ![k] = [@ EXCEPT !.pc = "emit", !.val = st.newPath,
                                                        !.after = "loop",
                                                        !.stack = popped]]
                   /\ UNCHANGED ev
                \/ /\ st.err = NoErr /\ st.info.isDir /\ Descends(opts.Recursive)
                   /\ wk' = [wk EXCEPT ![k] = [@ EXCEPT !.pc = "enqueue",
                                                        !.cur = st.newPath,
                                                        !.stack = popped]]
                   /\ UNCHANGED ev
                \/ /\ st.err = NoErr /\ st.info.isDir /\ ~Descends(opts.Recursive)
                   /\ wk' = [wk EXCEPT ![k] = [@ EXCEPT !.stack = popped]]
                   /\ UNCHANGED ev
    /\ UNCHANGED <<m, r, opts, extCancel, src, inClosed, hw, busyProcs,
                   cancelF, uniq, dup, closed, closer, sup, sink, root, inq,
                   queue, busyDirs, busyProcsR, cancelR, starter, mux, merger,
                   can>>
    /\ UNCHANGED <<mu, appVars, cn, auxVars>>

\* enqueue(path), lines 81-91: r.busyDirs.Add(1), then the select.  The
\* default case is taken only when neither r.cancel nor r.queue is ready.
SelfServeNever(full) == FALSE

SelfServe(full) == full

WkEnqueue(k) ==
    /\ wk[k].pc = "enqueue"
    /\ \/ /\ SignalClosed(cancelR)
          /\ wk' = [wk EXCEPT ![k] = [@ EXCEPT !.pc = "loop"]]
          /\ UNCHANGED <<queue, busyDirs, ev>>
       \/ /\ Len(queue) < WalkCap
          /\ queue' = Append(queue, wk[k].cur)
          /\ busyDirs' = busyDirs + 1
          /\ wk' = [wk EXCEPT ![k] = [@ EXCEPT !.pc = "loop"]]
          /\ UNCHANGED ev
       \/ /\ ~SignalClosed(cancelR)
          /\ SelfServe(Len(queue) >= WalkCap)
          /\ busyDirs' = busyDirs + 1
          /\ wk' = [wk EXCEPT ![k] = [@ EXCEPT !.pc = "handle"]]
          /\ ev' = [ev EXCEPT !.self = @ + 1]
          /\ UNCHANGED queue
    /\ UNCHANGED <<m, r, opts, extCancel, src, inClosed, hw, busyProcs,
                   cancelF, uniq, dup, closed, closer, sup, sink, root,
                   inq, busyProcsR, cancelR, starter, mux, merger, can>>
    /\ UNCHANGED <<mu, appVars, cn, auxVars>>

\* handle returns: the deferred r.busyDirs.Done(); back in the caller, which
\* is the loop of the handle that called enqueue, or the worker's select
WkReturn(k) ==
    /\ wk[k].pc = "return"
    /\ busyDirs' = busyDirs - 1
    /\ wk' = [wk EXCEPT ![k] =
                [@ EXCEPT !.stack = Tail(@),
                          !.pc = IF Tail(wk[k].stack) = << >> THEN "select" ELSE "loop"]]
    /\ UNCHANGED <<m, r, opts, extCancel, src, inClosed, hw, busyProcs,
                   cancelF, uniq, dup, closed, closer, sup, sink, ev, root,
                   inq, queue, busyProcsR, cancelR, starter, mux, merger, can>>
    /\ UNCHANGED <<mu, appVars, cn, auxVars>>

\* emit: case r.out <- path
WkEmit(k) ==
    /\ wk[k].pc = "emit"
    /\ Len(inq) < WalkCap
    /\ inq' = Append(inq, wk[k].val)
    /\ wk' = [wk EXCEPT ![k] = [@ EXCEPT !.pc = wk[k].after]]
    /\ UNCHANGED <<m, r, opts, extCancel, src, inClosed, hw, busyProcs,
                   cancelF, uniq, dup, closed, closer, sup, sink, ev, root,
                   queue, busyDirs, busyProcsR, cancelR, starter, mux, merger,
                   can>>
    /\ UNCHANGED <<mu, appVars, cn, auxVars>>

\* emit, emitErr: case <-r.cancel.C()
WkEmitCancelled(k) ==
    /\ wk[k].pc \in {"emit", "emitErr"}
    /\ SignalClosed(cancelR)
    /\ ev' = [ev EXCEPT !.dropped = BagAdd(@, wk[k].val)]
    /\ wk' = [wk EXCEPT ![k] = [@ EXCEPT !.pc = wk[k].after]]
    /\ UNCHANGED <<m, r, opts, extCancel, src, inClosed, hw, busyProcs,
                   cancelF, uniq, dup, closed, closer, sup, sink, root, inq,
                   queue, busyDirs, busyProcsR, cancelR, starter, mux, merger,
                   can>>
    /\ UNCHANGED <<mu, appVars, cn, auxVars>>

\* ---- the goroutine of dirReader.Start (src/dirreader.go:46-56)

\* enqueue(r.root): r.busyDirs.Add(1)
StarterAdd ==
    /\ starter = "add"
    /\ busyDirs' = busyDirs + 1
    /\ starter' = "select"
    /\ UNCHANGED <<m, r, opts, extCancel, src, inClosed, hw, busyProcs,
                   cancelF, uniq, dup, closed, closer, sup, sink, ev, root,
                   inq, wk, queue, busyProcsR, cancelR, mux, merger, can>>
    /\ UNCHANGED <<mu, appVars, cn, auxVars>>

\* enqueue(r.root): case r.queue <- path.  The queue is empty here (only a
\* handle fills it), so the default case is never taken for the root.
StarterPush ==
    /\ starter = "select"
    /\ Len(queue) < WalkCap
    /\ queue' = Append(queue, root)
    /\ starter' = "waitDirs"
    /\ UNCHANGED <<m, r, opts, extCancel, src, inClosed, hw, busyProcs,
                   cancelF, uniq, dup, closed, closer, sup, sink, ev, root,
                   inq, wk, busyDirs, busyProcsR, cancelR, mux, merger, can>>
    /\ UNCHANGED <<mu, appVars, cn, auxVars>>

\* enqueue(r.root): case <-r.cancel.C(): r.busyDirs.Done()
StarterCancelled ==
    /\ starter = "select"
    /\ SignalClosed(cancelR)
    /\ busyDirs' = busyDirs - 1
    /\ starter' = "waitDirs"
    /\ UNCHANGED <<m, r, opts, extCancel, src, inClosed, hw, busyProcs,
                   cancelF, uniq, dup, closed, closer, sup, sink, ev, root,
                   inq, wk, queue, busyProcsR, cancelR, mux, merger, can>>
    /\ UNCHANGED <<mu, appVars, cn, auxVars>>

\* r.busyDirs.Wait() returns; close(r.done)
StarterCloseDone ==
    /\ starter = "waitDirs"
    /\ WaitDone(busyDirs)
    /\ closed' = [closed EXCEPT !.done = TRUE]
    /\ starter' = "waitProcs"
    /\ UNCHANGED <<m, r, opts, extCancel, src, inClosed, hw, busyProcs,
                   cancelF, uniq, dup, closer, sup, sink, ev, root, inq, wk,
                   queue, busyDirs, busyProcsR, cancelR, mux, merger, can>>
    /\ UNCHANGED <<mu, appVars, cn, auxVars>>

\* r.busyProcs.Wait() returns; close(r.queue); close(r.out)
StarterCloseOut ==
    /\ starter = "waitProcs"
    /\ WaitDone(busyProcsR)
    /\ inClosed' = TRUE
    /\ starter' = "closeErr"
    /\ UNCHANGED <<m, r, opts, extCancel, src, hw, busyProcs, cancelF, uniq,
                   dup, closed, closer, sup, sink, ev, root, inq, wk, queue,
                   busyDirs, busyProcsR, cancelR, mux, merger, can>>
    /\ UNCHANGED <<mu, appVars, cn, auxVars>>

\* close(r.err)
StarterCloseErr ==
    /\ starter = "closeErr"
    /\ closed' = [closed EXCEPT !.rerr = TRUE]
    /\ starter' = "done"
    /\ UNCHANGED <<m, r, opts, extCancel, src, inClosed, hw, busyProcs,
                   cancelF, uniq, dup, closer, sup, sink, ev, root, inq, wk,
                   queue, busyDirs, busyProcsR, cancelR, mux, merger, can>>
    /\ UNCHANGED <<mu, appVars, cn, auxVars>>

\* ---- chanFilter workers reading r.out

\* case path, ok := <-f.in with ok: f.in is the buffered r.out
WorkerRecvQ(w) ==
    /\ hw[w].pc = "select"
    /\ inq # << >>
    /\ inq' = Tail(inq)
    /\ hw' = [hw EXCEPT ![w] = [pc |-> "handle", path |-> Head(inq), out |-> << >>]]
    /\ ev' = [ev EXCEPT !.taken = BagAdd(@, Head(inq))]
    /\ UNCHANGED <<m, r, opts, extCancel, src, inClosed, busyProcs, cancelF,
                   uniq, dup, closed, closer, sup, sink, root, wk, queue,
                   busyDirs, busyProcsR, cancelR, starter, mux, merger, can>>
    /\ UNCHANGED <<mu, appVars, cn, auxVars>>

\* ---- mergeErrors (src/unnamed/part_001:182-200)

\* for err := range in, on r.err: the receive is the send of a walker worker
MuxRecvR(k) ==
    /\ mux["r"].pc = "recv"
    /\ wk[k].pc = "emitErr"
    /\ ~closed.rerr
    /\ mux' = [mux EXCEPT !["r"] = [pc |-> "send", val |-> wk[k].val]]
    /\ ev' = [ev EXCEPT !.err = BagAdd(@, wk[k].val)]
    /\ wk' = [wk EXCEPT ![k] = [@ EXCEPT !.pc = wk[k].after]]
    /\ UNCHANGED <<m, r, opts, extCancel, src, inClosed, hw, busyProcs,
                   cancelF, uniq, dup, closed, closer, sup, sink, root, inq,
                   queue, busyDirs, busyProcsR, cancelR, starter, merger, can>>
    /\ UNCHANGED <<mu, appVars, cn, auxVars>>

\* for err := range in, on f.err: the receive is the send of a hashing worker
MuxRecvF(w) ==
    /\ mux["f"].pc = "recv"
    /\ hw[w].pc = "emitErr"
    /\ ~closed.err
    /\ mux' = [mux EXCEPT !["f"] = [pc |-> "send", val |-> hw[w].out]]
    /\ ev' = [ev EXCEPT !.err = BagAdd(@, hw[w].out)]
    /\ hw' = WorkerBack(w)
    /\ UNCHANGED <<m, r, opts, extCancel, src, inClosed, busyProcs, cancelF,
                   uniq, dup, closed, closer, sup, sink, root, inq, wk, queue,
                   busyDirs, busyProcsR, cancelR, starter, merger, can>>
    /\ UNCHANGED <<mu, appVars, cn, auxVars>>

\* the range loop ends when the input is closed; the deferred wg.Done()
MuxInClosed(i) ==
    /\ mux[i].pc = "recv"
    /\ IF i = "r" THEN closed.rerr ELSE closed.err
    /\ mux' = [mux EXCEPT ![i] = [pc |-> "exit", val |-> << >>]]
    /\ merger' = [merger EXCEPT !.wg = @ - 1]
    /\ UNCHANGED <<m, r, opts, extCancel, src, inClosed, hw, busyProcs,
                   cancelF, uniq, dup, closed, closer, sup, sink, ev, root,
                   inq, wk, queue, busyDirs, busyProcsR, cancelR, starter, can>>
    /\ UNCHANGED <<mu, appVars, cn, auxVars>>

\* wg.Wait() returns; close(out)
MergerClose ==
    /\ merger.pc = "wait"
    /\ WaitDone(merger.wg)
    /\ closed' = [closed EXCEPT !.merged = TRUE]
    /\ merger' = [merger EXCEPT !.pc = "done"]
    /\ UNCHANGED <<m, r, opts, extCancel, src, inClosed, hw, busyProcs,
                   cancelF, uniq, dup, closer, sup, sink, ev, root, inq, wk,
                   queue, busyDirs, busyProcsR, cancelR, starter, mux, can>>
    /\ UNCHANGED <<mu, appVars, cn, auxVars>>

\* ---- run on a dirFilter

\* dirFilter.Start: d.r.Start()
SupStartWalker ==
    /\ sup.pc = "startR"
    /\ busyProcsR' = busyProcsR + NumWalkers
    /\ wk' = [k \in Walkers |-> WalkerIdle]
    /\ starter' = "add"
    /\ sup' = [sup EXCEPT !.pc = "startF"]
    /\ UNCHANGED <<m, r, opts, extCancel, src, inClosed, hw, busyProcs,
                   cancelF, uniq, dup, closed, closer, sink, ev, root, inq,
                   queue, busyDirs, cancelR, mux, merger, can>>
    /\ UNCHANGED <<mu, appVars, cn, auxVars>>

\* case err, ok := <-f.Err() with ok: d.err is the unbuffered out of
\* mergeErrors, so the receive is the send out <- err of a multiplex goroutine
SupRecvMerged(i) ==
    /\ sup.pc = "loop"
    /\ mux[i].pc = "send"
    /\ ~closed.merged
    /\ mux' = [mux EXCEPT ![i] = [pc |-> "recv", val |-> << >>]]
    /\ sink' = [sink EXCEPT !.err = WriteTo(@, opts.ErrWriter, mux[i].val)]
    /\ sup' = [SupHandled(sup) EXCEPT
                 !.errors = ErrorsAppend(@, mux[i].val),
                 !.first = IF sup.first = NoErr THEN mux[i].val ELSE @,
                 !.pc = IF ExitOnErrorSet(opts) THEN "cancel" ELSE "loop"]
    /\ UNCHANGED <<m, r, opts, extCancel, src, inClosed, hw, busyProcs,
                   cancelF, uniq, dup, closed, closer, ev, root, inq, wk,
                   queue, busyDirs, busyProcsR, cancelR, starter, merger, can>>
    /\ UNCHANGED <<mu, appVars, cn, auxVars>>

\* case err, ok := <-f.Err() with !ok
SupMergedClosed ==
    /\ sup.pc = "loop"
    /\ closed.merged
    /\ sup' = [sup EXCEPT !.pc = "done"]
    /\ UNCHANGED <<m, r, opts, extCancel, src, inClosed, hw, busyProcs,
                   cancelF, uniq, dup, closed, closer, sink, ev, root, inq, wk,
                   queue, busyDirs, busyProcsR, cancelR, starter, mux, merger,
                   can>>
    /\ UNCHANGED <<mu, appVars, cn, auxVars>>

\* dirFilter.Cancel (src/bufferpool.go:229-241): two goroutines
SupCancelSpawn ==
    /\ sup.pc = "cancel"
    /\ can' = [i \in Sources |-> "once"]
    /\ sup' = [sup EXCEPT !.pc = "join"]
    /\ UNCHANGED <<m, r, opts, extCancel, src, inClosed, hw, busyProcs,
                   cancelF, uniq, dup, closed, closer, sink, ev, root, inq, wk,
                   queue, busyDirs, busyProcsR, cancelR, starter, mux, merger>>
    /\ UNCHANGED <<mu, appVars, cn, auxVars>>

\* d.r.Cancel(): r.cancel.Once()
CanROnce ==
    /\ can["r"] = "once"
    /\ cancelR' = SignalOnce(cancelR)
    /\ can' = [can EXCEPT !["r"] = "waitDirs"]
    /\ UNCHANGED <<m, r, opts, extCancel, src, inClosed, hw, busyProcs,
                   cancelF, uniq, dup, closed, closer, sup, sink, ev, root,
                   inq, wk, queue, busyDirs, busyProcsR, starter, mux, merger>>
    /\ UNCHANGED <<mu, appVars, cn, auxVars>>

\* d.r.Cancel(): r.busyDirs.Wait() returns
CanRWaitDirs ==
    /\ can["r"] = "waitDirs"
    /\ WaitDone(busyDirs)
    /\ can' = [can EXCEPT !["r"] = "waitProcs"]
    /\ UNCHANGED <<m, r, opts, extCancel, src, inClosed, hw, busyProcs,
                   cancelF, uniq, dup, closed, closer, sup, sink, ev, root,
                   inq, wk, queue, busyDirs, busyProcsR, cancelR, starter, mux,
                   merger>>
    /\ UNCHANGED <<mu, appVars, cn, auxVars>>

\* d.r.Cancel(): r.busyProcs.Wait() returns; wg.Done()
CanRWaitProcs ==
    /\ can["r"] = "waitProcs"
    /\ WaitDone(busyProcsR)
    /\ can' = [can EXCEPT !["r"] = "done"]
    /\ UNCHANGED <<m, r, opts, extCancel, src, inClosed, hw, busyProcs,
                   cancelF, uniq, dup, closed, closer, sup, sink, ev, root,
                   inq, wk, queue, busyDirs, busyProcsR, cancelR, starter, mux,
                   merger>>
    /\ UNCHANGED <<mu, appVars, cn, auxVars>>

\* d.f.Cancel(): f.cancel.Once()
CanFOnce ==
    /\ can["f"] = "once"
    /\ cancelF' = SignalOnce(cancelF)
    /\ can' = [can EXCEPT !["f"] = "wait"]
    /\ UNCHANGED <<m, r, opts, extCancel, src, inClosed, hw, busyProcs, uniq,
                   dup, closed, closer, sup, sink, ev, root, inq, wk, queue,
                   busyDirs, busyProcsR, cancelR, starter, mux, merger>>
    /\ UNCHANGED <<mu, appVars, cn, auxVars>>

\* d.f.Cancel(): f.busyProcs.Wait() returns; wg.Done()
CanFWait ==
    /\ can["f"] = "wait"
    /\ WaitDone(busyProcs)
    /\ can' = [can EXCEPT !["f"] = "done"]
    /\ UNCHANGED <<m, r, opts, extCancel, src, inClosed, hw, busyProcs,
                   cancelF, uniq, dup, closed, closer, sup, sink, ev, root,
                   inq, wk, queue, busyDirs, busyProcsR, cancelR, starter, mux,
                   merger>>
    /\ UNCHANGED <<mu, appVars, cn, auxVars>>

\* dirFilter.Cancel: wg.Wait() returns; break loop; run returns
SupJoin ==
    /\ sup.pc = "join"
    /\ \A i \in Sources : can[i] = "done"
    /\ sup' = [sup EXCEPT !.pc = "done"]
    /\ UNCHANGED <<m, r, opts, extCancel, src, inClosed, hw, busyProcs,
                   cancelF, uniq, dup, closed, closer, sink, ev, root, inq, wk,
                   queue, busyDirs, busyProcsR, cancelR, starter, mux, merger,
                   can>>
    /\ UNCHANGED <<mu, appVars, cn, auxVars>>

InitDir ==
    /\ m = NewSumsM
    /\ r = NoStats
    /\ mu = 0
    /\ InitApp
    /\ \E o \in DirOptionSets : PipeNew(o, "startR")
    /\ \E rt \in Roots : DirNew(rt)
    /\ AuxIdle

NextDir ==
    \/ \E k \in Walkers :
        \/ WkCancelled(k)
        \/ WkDone(k)
        \/ WkRecv(k)
        \/ WkHandle(k)
        \/ WkLoop(k)
        \/ WkEnqueue(k)
        \/ WkReturn(k)
        \/ WkEmit(k)
        \/ WkEmitCancelled(k)
        \/ MuxRecvR(k)
    \/ StarterAdd
    \/ StarterPush
    \/ StarterCancelled
    \/ StarterCloseDone
    \/ StarterCloseOut
    \/ StarterCloseErr
    \/ \E w \in Workers :
        \/ WorkerRecvQ(w)
        \/ WorkerInClosed(w)
        \/ WorkerCancelled(w)
        \/ WorkerHandle(w)
        \/ WorkerEmitUniq(w)
        \/ WorkerEmitDup(w)
        \/ WorkerEmitCancelled(w)
        \/ MuxRecvF(w)
    \/ \E i \in Sources : MuxInClosed(i)
    \/ \E i \in Sources : SupRecvMerged(i)
    \/ MergerClose
    \/ CloserCloseDup
    \/ CloserCloseErr
    \/ SupStartWalker
    \/ SupStart
    \/ ExtCancel
    \/ SupCancelCase
    \/ SupMergedClosed
    \/ SupRecvDup
    \/ SupDupClosed
    \/ SupRecvUniq
    \/ SupCancelSpawn
    \/ CanROnce
    \/ CanRWaitDirs
    \/ CanRWaitProcs
    \/ CanFOnce
    \/ CanFWait
    \/ SupJoin

SpecDir == InitDir /\ [][NextDir]_vars

\* the same scheduling assumption for directory mode
FairSpecDir == SpecDir /\ WF_vars(NextDir /\ extCancel' = extCancel)

(***************************************************************************)
(* Claims about the pipeline, checked under Spec.                          *)
(***************************************************************************)
AllWorkersExited == \A w \in Workers : hw[w].pc = "exit"

\* the run took no cancellation path and has no exit policy
NoCancelRun == cancelF = 0 /\ ~opts.ExitOnError /\ ~opts.ExitOnDup

AllDigests == {Sha1(FS[p].content) : p \in {q \in DOMAIN FS : FS[q].kind = "file"}}

\* the digest of the file a canonical path names
DigestOfPath(path) == Sha1(FsOpenRead(path).content)

\* how many of the paths in the bag b name a file of digest d
EventsFor(b, d) ==
    LET S == {p \in DOMAIN b : DigestOfPath(p) = d} IN
    SumOver([p \in S |-> b[p]], S)

\* C4 as stated: at the end of every run, cancelled or not, every digest has
\* at most one unique event, and as many events as files in its bucket.
C4_Original ==
    AllWorkersExited =>
        \A d \in AllDigests :
            /\ EventsFor(ev.uniq, d) \in {0, 1}
            /\ EventsFor(ev.uniq, d) + EventsFor(ev.dup, d) = BucketLen(d)

\* C4 (amended): every digest has at most one unique event and never more
\* events than files in its bucket; the two numbers are equal once all
\* workers have exited in a run whose cancellation signal was not triggered.
C4_Classification ==
    \A d \in AllDigests :
        /\ EventsFor(ev.uniq, d) \in {0, 1}
        /\ EventsFor(ev.uniq, d) + EventsFor(ev.dup, d) <= BucketLen(d)
        /\ (AllWorkersExited /\ cancelF = 0) =>
              EventsFor(ev.uniq, d) + EventsFor(ev.dup, d) = BucketLen(d)

\* an uncancelled run has ended with a bucket of three files
C4_Witness ==
    /\ AllWorkersExited
    /\ cancelF = 0
    /\ \E d \in AllDigests :
          /\ BucketLen(d) = 3
          /\ EventsFor(ev.uniq, d) = 1
          /\ EventsFor(ev.dup, d) = 2

\* C5: once the workers have exited and the goroutine that closes the
\* streams has finished, the unique, duplicate and error streams are closed.
C5_AllClosed ==
    closer = "done" => closed.uniq /\ closed.dup /\ closed.err

\* the paths the workers classified as unique: the first file of each bucket
ClassifiedUniq == [p \in {m[d][1].path : d \in DOMAIN m} |-> 1]

RECURSIVE Concat(_, _)
\* the buckets of the digests in S, one after the other, each without its first file
Concat(mm, S) ==
    IF S = {} THEN << >>
    ELSE LET d == CHOOSE x \in S : TRUE IN Tail(mm[d]) \o Concat(mm, S \ {d})

\* the paths the workers classified as duplicate: the later files of each bucket
ClassifiedDup ==
    LET tails == Concat(m, DOMAIN m) IN
    SeqToBag([i \in 1..Len(tails) |-> tails[i].path])

\* C6: in a run with a unique sink and without cancellation or exit policy,
\* every path classified as unique is in the unique sink when run returns.
C6_UniqueWritten ==
    (sup.pc = "done" /\ opts.UniqWriter /\ NoCancelRun) =>
        ClassifiedUniq \sqsubseteq SeqToBag(sink.uniq)

\* C7: in a run with a duplicate sink and without cancellation or exit
\* policy, every path classified as duplicate is in the duplicate sink when
\* run returns.
C7_DuplicateWritten ==
    (sup.pc = "done" /\ opts.DupWriter /\ NoCancelRun) =>
        ClassifiedDup \sqsubseteq SeqToBag(sink.dup)

\* C8: in stream mode, without cancellation or exit policy, the errors run
\* returns are the errors the workers raised, each as often as it was raised.
C8_ErrorsExact ==
    (sup.pc = "done" /\ NoCancelRun) => SeqToBag(sup.errors) = ev.raised

\* a run that returned two errors and indexed a file
C8_Witness ==
    /\ sup.pc = "done"
    /\ NoCancelRun
    /\ Len(sup.errors) >= 2
    /\ r.NumFiles >= 1

\* C10: with ExitOnError, the supervisor keeps one error, the first it
\* received, handles no event after it, and leaves the loop.
C10_FirstErrorOnly ==
    (opts.ExitOnError /\ sup.errors # << >>) =>
        /\ sup.errors = <<sup.first>>
        /\ sup.after = 0
        /\ sup.pc \in {"cancel", "wait", "done"}

\* run returned one error although the workers raised two
C10_Witness ==
    /\ opts.ExitOnError
    /\ sup.pc = "done"
    /\ Len(sup.errors) = 1
    /\ BagCardinality(ev.raised) >= 2

\* the duplicate events the supervisor has received: f.dup is a FIFO buffer,
\* so they are the paths sent on it less the paths still in it
SupDupsReceived == BagCardinality(ev.dup) - Len(dup)

\* C11: with ExitOnDup, at most one path is written to the duplicate sink,
\* no sink is written after the supervisor received its first duplicate
\* event (it goes on to cancel and return), and when run has returned after
\* such an event the index counts at least one duplicate file.
C11_ExitOnDup ==
    /\ [](opts.ExitOnDup =>
            /\ Len(sink.dup) <= 1
            /\ SupDupsReceived <= 1
            /\ (SupDupsReceived = 1 => sup.pc \in {"cancel", "wait", "done"})
            /\ ((sup.pc = "done" /\ SupDupsReceived = 1) => r.NumDupFiles >= 1))
    /\ [][(opts.ExitOnDup /\ SupDupsReceived >= 1) => sink' = sink]_vars

\* run returned on the first duplicate although two were sent
C11_Witness ==
    /\ opts.ExitOnDup
    /\ sup.pc = "done"
    /\ Len(sink.dup) = 1
    /\ BagCardinality(ev.dup) >= 2

\* the candidates that lstat and the read make a file of
FileCandidates ==
    {p \in BagToSet(ev.taken) : HandleOutcome(p, opts.FollowSymlinks).kind = "file"}

\* the path handle goes on with: lstat's newPath
CanonicalOf(p) == HandleOutcome(p, opts.FollowSymlinks).file.path

\* one event for every candidate that is a file, under its canonical path
ExpectedEvents ==
    [c \in {CanonicalOf(p) : p \in FileCandidates} |->
        LET S == {p \in FileCandidates : CanonicalOf(p) = c} IN
        SumOver([p \in S |-> ev.taken[p]], S)]

\* the paths of the files in the index
IndexedPaths == ClassifiedUniq (+) ClassifiedDup

\* C19: when a run without cancellation and without exit policy has
\* returned, the paths sent on the unique and the duplicate stream are the
\* canonical paths of the candidates, less the directories and the
\* candidates that raised an error (as sets, and also one event per
\* candidate), and every such file is in the index.
C19_AllEmitted ==
    (sup.pc = "done" /\ NoCancelRun) =>
        /\ BagToSet(ev.uniq) \cup BagToSet(ev.dup)
             = {CanonicalOf(p) : p \in FileCandidates}
        /\ ev.uniq (+) ev.dup = ExpectedEvents
        /\ IndexedPaths = ExpectedEvents

\* a run with a directory, an unreadable file and a file among its candidates
C19_Witness ==
    /\ sup.pc = "done"
    /\ NoCancelRun
    /\ {<<"d", "s">>, <<"d", "e">>} \subseteq BagToSet(ev.taken)
    /\ FileCandidates # {}

\* the candidate is a directory: line 142 of handle returns without an event
IsDirCandidate(p) ==
    LET st == lstat(p, opts.FollowSymlinks) IN st.err = NoErr /\ st.info.isDir

\* the workers that hold a candidate: inside handle or inside an emit
InHand == Cardinality({w \in Workers : hw[w].pc \in {"handle", "emitUniq", "emitDup", "emitErr"}})

\* the directories among the candidates that handle has returned from
DirsSkipped ==
    LET S == {p \in BagToSet(ev.taken) : IsDirCandidate(p)} IN
    SumOver([p \in S |-> ev.taken[p]], S)
    - Cardinality({w \in Workers : hw[w].pc = "handle" /\ IsDirCandidate(hw[w].path)})

\* the events of the run: values sent on f.uniq, f.dup and f.err, and
\* emissions given up because of cancellation
EventCount ==
    BagCardinality(ev.uniq) + BagCardinality(ev.dup) + BagCardinality(ev.err)
    + BagCardinality(ev.dropped)

\* C20 as stated: when run has returned, unique, duplicate and error events
\* and emissions abandoned to cancellation add up to the candidates the
\* workers took.
C20_Original ==
    (sup.pc = "done") => EventCount = BagCardinality(ev.taken)

\* C20: at every moment the candidates the workers took are the events, the
\* directories skipped without an event and the candidates still in a
\* worker's hand; no worker holds one when run has returned.
C20_NoSilentDrop ==
    /\ EventCount + DirsSkipped + InHand = BagCardinality(ev.taken)
    /\ (sup.pc = "done") => InHand = 0

\* a cancelled run that took three candidates: one was a directory and one
\* emission was given up
C20_Witness ==
    /\ sup.pc = "done"
    /\ BagCardinality(ev.taken) = 3
    /\ DirsSkipped >= 1
    /\ BagCardinality(ev.dropped) >= 1

(***************************************************************************)
(* Claims about directory mode, checked under SpecDir.                     *)
(***************************************************************************)
\* nobody cancelled and no option makes the supervisor cancel
NoCancelDirRun ==
    /\ ~extCancel
    /\ cancelF = 0
    /\ cancelR = 0
    /\ ~opts.ExitOnError
    /\ ~opts.ExitOnDup

\* C9: in directory mode without cancellation and without ExitOnError or
\* ExitOnDup, once run has returned, every error a walker worker or a hashing
\* worker emitted is in the errors run returned.
C9_ErrorsKept ==
    (sup.pc = "done" /\ NoCancelDirRun) => ev.raised \sqsubseteq SeqToBag(sup.errors)

\* C12: in directory mode, as long as nobody cancels and no option makes
\* the supervisor cancel, run eventually returns: no interleaving blocks, also
\* not when a worker finds the directory queue full and visits the child
\* itself.
C12_DirReturns ==
    <>(sup.pc = "done" \/ ~NoCancelDirRun)

\* run returned without cancellation after a worker visited a sub-directory
\* synchronously because the queue was full
C12_Witness ==
    /\ sup.pc = "done"
    /\ NoCancelDirRun
    /\ ev.self >= 1
    /\ r.NumFiles >= 2

(***************************************************************************)
(* Termination of stream mode, checked under FairSpec.                     *)
(***************************************************************************)
\* C13: in stream mode run eventually returns in every interleaving, however
\* the run ends (input exhausted, opts.Cancel closed at any moment,
\* ExitOnError, ExitOnDup), and the errors it returns are errors the workers
\* raised: closing opts.Cancel adds none.
C13_StreamReturns ==
    /\ <>(sup.pc = "done")
    /\ [](SeqToBag(sup.errors) \sqsubseteq ev.raised)

\* run returned after the caller closed opts.Cancel while the reader still
\* held a line; a worker gave up a value; no error was returned
C13_Witness ==
    /\ sup.pc = "done"
    /\ extCancel
    /\ cancelF = 1
    /\ ~opts.ExitOnError
    /\ ~opts.ExitOnDup
    /\ src.pc = "send"
    /\ BagCardinality(ev.dropped) >= 1
    /\ sup.errors = << >>

(***************************************************************************)
(* Cancellation of the walker, checked under FairSpecDir.                  *)
(***************************************************************************)
\* C14: a call of dirReader.Cancel, made at any moment after Start,
\* eventually returns, also when directories are still in r.queue.
C14_CancelReturns ==
    (can["r"] = "once") ~> (can["r"] = "done")

\* C15: after dirReader.Cancel has been called, r.out and r.err are both
\* eventually closed.
C15_StreamsClosed ==
    (can["r"] = "once") ~> (inClosed /\ closed.rerr)

(***************************************************************************)
(* Workers after cancellation, checked under SpecDir.                      *)
(***************************************************************************)
\* a hashing worker takes a path from f.in or sends on f.uniq, f.dup, f.err
HasherActs ==
    \/ ev'.taken # ev.taken
    \/ ev'.uniq # ev.uniq
    \/ ev'.dup # ev.dup
    \/ \E w \in Workers : hw[w].pc = "emitErr" /\ hw'[w].pc = "select"
                          /\ ev'.err # ev.err

\* a walker worker takes a directory from r.queue or sends on r.out, r.err
WalkerActs ==
    \/ \E k \in Walkers : wk[k].pc = "select" /\ wk'[k].pc = "handle"
    \/ \E k \in Walkers : wk[k].pc = "emit" /\ inq' = Append(inq, wk[k].val)
    \/ \E k \in Walkers : wk[k].pc = "emitErr" /\ wk'[k].pc # "emitErr"
                          /\ ev'.err # ev.err

\* C16: once the signal of a component has been triggered, no worker of
\* that component takes a new path from its input and none sends a further
\* value on an output stream.
C16_QuietAfterCancel ==
    [][/\ SignalClosed(cancelF) => ~HasherActs
       /\ SignalClosed(cancelR) => ~WalkerActs]_vars

(***************************************************************************)
(* The goroutines of a run after run has returned, checked under FairSpec. *)
(***************************************************************************)
\* readLines has closed its channel, every worker has returned and the
\* goroutine of Start has closed f.dup and f.err
StreamTasksFinished ==
    /\ src.pc = "closed"
    /\ \A w \in Workers : hw[w].pc = "exit"
    /\ closer = "done"

\* C17: when run has returned, on any exit path, every goroutine the run
\* started has finished or finishes without further action of the caller.
C17_NoTaskLeft ==
    (sup.pc = "done") ~> StreamTasksFinished

(***************************************************************************)
(* SpecCancel: a started dirFilter on the directory d/s, and NumCancellers *)
(* goroutines that call chanFilter.Cancel or dirReader.Cancel, each up to  *)
(* MaxCancels times, at any moment after Start.                            *)
(***************************************************************************)
\* the components that have a Cancel
Components == {"f", "r"}

\* a caller enters Cancel of a component, after Start
CnCall(c, comp) ==
    /\ cn[c].pc = "idle"
    /\ cn[c].calls < MaxCancels
    /\ sup.pc \notin {"startR", "startF"}
    /\ cn' = [cn EXCEPT ![c] = [@ EXCEPT !.pc = "once", !.comp = comp]]
    /\ UNCHANGED <<m, r, opts, extCancel, src, inClosed, hw, busyProcs,
                   cancelF, uniq, dup, closed, closer, sup, sink, ev, root,
                   inq, wk, queue, busyDirs, busyProcsR, cancelR, starter, mux,
                   merger, can>>
    /\ UNCHANGED <<mu, appVars, auxVars>>

\* f.cancel.Once() (src/bufferpool.go:114), r.cancel.Once() (src/dirreader.go:62)
CnOnce(c) ==
    /\ cn[c].pc = "once"
    /\ IF cn[c].comp = "f"
       THEN cancelF' = SignalOnce(cancelF) /\ UNCHANGED cancelR
       ELSE cancelR' = SignalOnce(cancelR) /\ UNCHANGED cancelF
    /\ cn' = [cn EXCEPT ![c] = [@ EXCEPT !.pc = IF cn[c].comp = "f" THEN "waitProcs"
                                                ELSE "waitDirs"]]
    /\ UNCHANGED <<m, r, opts, extCancel, src, inClosed, hw, busyProcs, uniq,
                   dup, closed, closer, sup, sink, ev, root, inq, wk, queue,
                   busyDirs, busyProcsR, starter, mux, merger, can>>
    /\ UNCHANGED <<mu, appVars, auxVars>>

\* r.busyDirs.Wait() returns (src/dirreader.go:63)
CnWaitDirs(c) ==
    /\ cn[c].pc = "waitDirs"
    /\ WaitDone(busyDirs)
    /\ cn' = [cn EXCEPT ![c] = [@ EXCEPT !.pc = "waitProcs"]]
    /\ UNCHANGED <<m, r, opts, extCancel, src, inClosed, hw, busyProcs,
                   cancelF, uniq, dup, closed, closer, sup, sink, ev, root,
                   inq, wk, queue, busyDirs, busyProcsR, cancelR, starter, mux,
                   merger, can>>
    /\ UNCHANGED <<mu, appVars, auxVars>>

\* f.busyProcs.Wait() or r.busyProcs.Wait() returns; Cancel returns
CnReturn(c) ==
    /\ cn[c].pc = "waitProcs"
    /\ WaitDone(IF cn[c].comp = "f" THEN busyProcs ELSE busyProcsR)
    /\ cn' = [cn EXCEPT ![c] = [@ EXCEPT !.pc = "idle", !.calls = @ + 1]]
    /\ UNCHANGED <<m, r, opts, extCancel, src, inClosed, hw, busyProcs,
                   cancelF, uniq, dup, closed, closer, sup, sink, ev, root,
                   inq, wk, queue, busyDirs, busyProcsR, cancelR, starter, mux,
                   merger, can>>
    /\ UNCHANGED <<mu, appVars, auxVars>>

InitCancel ==
    /\ m = NewSumsM
    /\ r = NoStats
    /\ mu = 0
    /\ InitApp
    /\ PipeNew([NoOpts EXCEPT !.UniqWriter = TRUE, !.DupWriter = TRUE,
                              !.ErrWriter = TRUE], "startR")
    /\ DirNew(<<"d", "s">>)
    /\ AuxIdle

NextCancel ==
    \/ \E c \in Cancellers :
        \/ \E comp \in Components : CnCall(c, comp)
        \/ CnOnce(c)
        \/ CnWaitDirs(c)
        \/ CnReturn(c)
    \/ \E k \in Walkers :
        \/ WkCancelled(k)
        \/ WkDone(k)
        \/ WkRecv(k)
        \/ WkHandle(k)
        \/ WkLoop(k)
        \/ WkReturn(k)
        \/ WkEmit(k)
        \/ WkEmitCancelled(k)
    \/ StarterAdd
    \/ StarterPush
    \/ StarterCancelled
    \/ StarterCloseDone
    \/ StarterCloseOut
    \/ StarterCloseErr
    \/ \E w \in Workers :
        \/ WorkerRecvQ(w)
        \/ WorkerInClosed(w)
        \/ WorkerCancelled(w)
        \/ WorkerHandle(w)
        \/ WorkerEmitUniq(w)
        \/ WorkerEmitCancelled(w)
    \/ \E i \in Sources : MuxInClosed(i)
    \/ MergerClose
    \/ CloserCloseDup
    \/ CloserCloseErr
    \/ SupStartWalker
    \/ SupStart
    \/ SupRecvUniq
    \/ SupDupClosed
    \/ SupMergedClosed

SpecCancel == InitCancel /\ [][NextCancel]_vars

\* C18: however often and from however many goroutines Cancel is called, the
\* channel of a signal is closed at most once, a signal that has been
\* triggered stays as it is, and a call of Once on a triggered signal changes
\* nothing but the position of its caller.
C18_CancelIdempotent ==
    /\ [](cancelF <= 1 /\ cancelR <= 1)
    /\ [][/\ SignalClosed(cancelF) => cancelF' = cancelF
          /\ SignalClosed(cancelR) => cancelR' = cancelR
          /\ \A c \in Cancellers :
                (/\ cn[c].pc = "once"
                 /\ cn'[c].pc # "once"
                 /\ SignalClosed(IF cn[c].comp = "f" THEN cancelF ELSE cancelR))
                => UNCHANGED <<sumsVars, pipeVars, dirVars>>]_vars

\* two goroutines are inside Cancel of the same component at once, one of
\* them in its second call, and the signal was closed once
C18_Witness ==
    /\ cn[1].pc = "waitProcs"
    /\ cn[2].pc = "waitProcs"
    /\ cn[1].comp = cn[2].comp
    /\ cn[1].calls = 1
    /\ (IF cn[1].comp = "f" THEN cancelF ELSE cancelR) = 1

(***************************************************************************)
(* Directory mode when nobody cancels and no exit policy is set: the       *)
(* caller's channel stays open, so the steps after a cancellation never    *)
(* happen.  The roots are a tree without errors (p), a tree with an entry  *)
(* that cannot be examined and a directory that cannot be listed (w), and  *)
(* a regular file (t).                                                     *)
(***************************************************************************)
WalkRoots == {<<"p">>, <<"w">>, <<"t">>}

WalkOptionSets ==
    {[NoOpts EXCEPT !.Recursive = rec,
                    !.UniqWriter = TRUE, !.DupWriter = TRUE, !.ErrWriter = TRUE] :
        rec \in BOOLEAN}

InitWalk ==
    /\ m = NewSumsM
    /\ r = NoStats
    /\ mu = 0
    /\ InitApp
    /\ \E o \in WalkOptionSets : PipeNew(o, "startR")
    /\ \E rt \in WalkRoots : DirNew(rt)
    /\ AuxIdle

NextWalk ==
    \/ \E k \in Walkers :
        \/ WkDone(k)
        \/ WkRecv(k)
        \/ WkHandle(k)
        \/ WkLoop(k)
        \/ WkEnqueue(k)
        \/ WkReturn(k)
        \/ WkEmit(k)
        \/ MuxRecvR(k)
    \/ StarterAdd
    \/ StarterPush
    \/ StarterCloseDone
    \/ StarterCloseOut
    \/ StarterCloseErr
    \/ \E w \in Workers :
        \/ WorkerRecvQ(w)
        \/ WorkerInClosed(w)
        \/ WorkerHandle(w)
        \/ WorkerEmitUniq(w)
        \/ WorkerEmitDup(w)
        \/ MuxRecvF(w)
    \/ \E i \in Sources : MuxInClosed(i)
    \/ \E i \in Sources : SupRecvMerged(i)
    \/ MergerClose
    \/ CloserCloseDup
    \/ CloserCloseErr
    \/ SupStartWalker
    \/ SupStart
    \/ SupMergedClosed
    \/ SupRecvDup
    \/ SupDupClosed
    \/ SupRecvUniq

SpecWalk == InitWalk /\ [][NextWalk]_vars

(***************************************************************************)
(* Claims about the walk, checked under SpecWalk.                          *)
(***************************************************************************)

\* a is a proper prefix of b: b lies below the directory a
Below(a, b) == Len(a) < Len(b) /\ SubSeq(b, 1, Len(a)) = a

\* the entries of the tree a walk of rt is about: rt itself, its children,
\* and with rec everything below it
TreeEntries(rt, rec) ==
    {p \in DOMAIN FS :
        \/ p = rt
        \/ Below(rt, p) /\ (rec \/ Len(p) = Len(rt) + 1)}

NonDirEntries(rt, rec) == {p \in TreeEntries(rt, rec) : FS[p].kind # "dir"}

\* the directories such a walk lists
ListedDirs(rt, rec) ==
    {p \in TreeEntries(rt, rec) : FS[p].kind = "dir" /\ (rec \/ p = rt)}

\* no entry of the walk fails at lstat and no directory fails to be listed
ErrorFreeWalk(rt, rec) ==
    /\ rt \in DOMAIN FS
    /\ \A d \in ListedDirs(rt, rec) :
        /\ ~FS[d].denied
        /\ \A i \in 1..Len(FS[d].names) : Append(d, FS[d].names[i]) \in DOMAIN FS

\* the paths the walker has sent on r.out so far: those still buffered and
\* those a hashing worker has received
WalkerSent == ev.taken (+) SeqToBag(inq)

\* C21: in a walk without cancellation, without symlink following and
\* without stat or enumeration errors, the walker sends no path twice and
\* only non-directory entries of the tree, and when the run has returned it
\* has sent every one of them: the non-directory children of the root when
\* recursive is false, every non-directory entry below the root when it is
\* true, and the root itself when the root is not a directory.
C21_EachEntryOnce ==
    (ErrorFreeWalk(root, opts.Recursive) /\ ~opts.FollowSymlinks /\ NoCancelDirRun) =>
        /\ \A p \in BagToSet(WalkerSent) :
            /\ p \in NonDirEntries(root, opts.Recursive)
            /\ CopiesIn(p, WalkerSent) = 1
        /\ sup.pc = "done" =>
            BagToSet(WalkerSent) = NonDirEntries(root, opts.Recursive)

C21_Witness ==
    /\ sup.pc = "done"
    /\ root = <<"p">>
    /\ opts.Recursive
    /\ ErrorFreeWalk(root, opts.Recursive)
    /\ BagToSet(ev.taken) = {<<"p", "c">>, <<"p", "q", "c">>}

\* the directories of the walk that list without error
Listable(rt, rec) == {d \in ListedDirs(rt, rec) : ~FS[d].denied}

\* an entry of the walk is reached when no directory above it fails to list
Reached(rt, rec) ==
    {p \in TreeEntries(rt, rec) :
        \A d \in DOMAIN FS : (Below(d, p) /\ ~Below(d, rt)) => d \in Listable(rt, rec)}

\* the names a reached directory lists that have no entry: lstat fails
MissingChildren(rt, rec) ==
    UNION {{Append(d, FS[d].names[i]) : i \in 1..Len(FS[d].names)} \ DOMAIN FS :
              d \in Listable(rt, rec) \cap Reached(rt, rec)}

\* the reached directories that cannot be listed: Readdirnames fails
DeniedReached(rt, rec) ==
    (ListedDirs(rt, rec) \cap Reached(rt, rec)) \ Listable(rt, rec)

ExpectedWalkErrors(rt, rec) ==
    {<<"lstat", q>> : q \in MissingChildren(rt, rec)}
        \cup {<<"readdirnames", d>> : d \in DeniedReached(rt, rec)}

\* C29: in a walk without cancellation a child that fails at lstat raises
\* one error and a directory that fails at Readdirnames raises one error;
\* when the run has returned, every other entry that is not below a
\* directory that failed to list has been examined: the walker has sent each
\* non-directory entry it could reach once, and nothing below a directory
\* that failed to list.
C29_WalkGoesOn ==
    NoCancelDirRun =>
        /\ \A e \in BagToSet(ev.raised) : CopiesIn(e, ev.raised) = 1
        /\ sup.pc = "done" =>
            /\ \A e \in ExpectedWalkErrors(root, opts.Recursive) :
                    CopiesIn(e, ev.raised) = 1
            /\ BagToSet(WalkerSent) =
                    {p \in Reached(root, opts.Recursive) : FS[p].kind # "dir"}
            /\ \A p \in BagToSet(WalkerSent) : CopiesIn(p, WalkerSent) = 1

C29_Witness ==
    /\ sup.pc = "done"
    /\ root = <<"w">>
    /\ opts.Recursive
    /\ CopiesIn(<<"lstat", <<"w", "g">>>>, ev.raised) = 1
    /\ CopiesIn(<<"readdirnames", <<"w", "n">>>>, ev.raised) = 1
    /\ BagToSet(ev.taken) = {<<"w", "e">>, <<"w", "q", "c">>}

(***************************************************************************)
(* Filter on a given reader (src/unnamed/part_001:46-52, 144-158): the     *)
(* lines of the input are fixed at the start, with and without             *)
(* FollowSymlinks, and the caller never cancels.                           *)
(***************************************************************************)
InputLines == {<<"l">>, <<"t">>, <<"k">>, << >>}

\* the readers Filter is given: up to MaxLines lines
Inputs == UNION {[1..n -> InputLines] : n \in 0..MaxLines}

InputOptionSets ==
    {[NoOpts EXCEPT !.FollowSymlinks = f,
                    !.UniqWriter = TRUE, !.DupWriter = TRUE, !.ErrWriter = TRUE] :
        f \in BOOLEAN}

\* line 150: if line := s.Text(); line != "" { c <- line } else { break }
EndsInputNever(line) == FALSE

EndsInput(line) == line = << >>

\* s.Scan() is true: the next line is sent, or it is empty and the loop
\* breaks, which runs the deferred close(c)
SrcScanIn ==
    /\ src.pc = "scan"
    /\ src.n < Len(rin)
    /\ LET line == rin[src.n + 1] IN
       IF EndsInput(line)
       THEN /\ src' = [src EXCEPT !.pc = "closed"]
            /\ inClosed' = TRUE
       ELSE /\ src' = [pc |-> "send", line |-> line, n |-> src.n + 1]
            /\ UNCHANGED inClosed
    /\ UNCHANGED <<m, r, opts, extCancel, hw, busyProcs, cancelF, uniq, dup,
                   closed, closer, sup, sink, ev>>
    /\ idleRest

\* s.Scan() is false at the end of the input: the deferred close(c)
SrcEof ==
    /\ src.pc = "scan"
    /\ src.n = Len(rin)
    /\ src' = [src EXCEPT !.pc = "closed"]
    /\ inClosed' = TRUE
    /\ UNCHANGED <<m, r, opts, extCancel, hw, busyProcs, cancelF, uniq, dup,
                   closed, closer, sup, sink, ev>>
    /\ idleRest

\* case path, ok := <-f.in with ok, as WorkerRecv; rout notes the order in
\* which the channel of readLines delivered the lines
WorkerRecvLine(w) ==
    /\ hw[w].pc = "select"
    /\ src.pc = "send"
    /\ hw' = [hw EXCEPT ![w] = [pc |-> "handle", path |-> src.line, out |-> << >>]]
    /\ src' = [src EXCEPT !.pc = "scan", !.line = << >>]
    /\ ev' = [ev EXCEPT !.taken = BagAdd(@, src.line)]
    /\ rout' = Append(rout, src.line)
    /\ UNCHANGED <<m, r, opts, extCancel, inClosed, busyProcs, cancelF, uniq, dup,
                   closed, closer, sup, sink>>
    /\ UNCHANGED <<mu, appVars, dirVars, cn, rin, wout, maxProcs, procs, fs>>

InitInput ==
    /\ m = NewSumsM
    /\ r = NoStats
    /\ mu = 0
    /\ InitApp
    /\ \E o \in InputOptionSets : PipeNew(o, "startF")
    /\ DirIdle
    /\ rin \in Inputs
    /\ rout = << >>
    /\ wout = NoOutput
    /\ maxProcs = 0
    /\ procs = NoProcs
    /\ fs = FS

NextInput ==
    \/ SrcScanIn
    \/ SrcEof
    \/ \E w \in Workers :
        \/ WorkerRecvLine(w)
        \/ WorkerInClosed(w)
        \/ WorkerHandle(w)
        \/ WorkerEmitUniq(w)
        \/ WorkerEmitDup(w)
        \/ SupRecvErr(w)
    \/ CloserCloseDup
    \/ CloserCloseErr
    \/ SupStart
    \/ SupErrClosed
    \/ SupRecvDup
    \/ SupDupClosed
    \/ SupRecvUniq

SpecInput == InitInput /\ [][NextInput]_vars

(***************************************************************************)
(* Claims about the input of Filter, checked under SpecInput.              *)
(***************************************************************************)

\* the lines of s before its first empty line
LinesBeforeEmpty(s) ==
    LET empties == {i \in 1..Len(s) : s[i] = << >>}
        first == IF empties = {} THEN Len(s) + 1
                 ELSE CHOOSE i \in empties : \A j \in empties : i <= j
    IN  SubSeq(s, 1, first - 1)

IsPrefixOf(a, b) == Len(a) <= Len(b) /\ SubSeq(b, 1, Len(a)) = a

IndexEntries ==
    UNION {{[sum |-> d, path |-> m[d][i].path] : i \in 1..Len(m[d])} : d \in DOMAIN m}

\* the paths the workers sent on the unique and the duplicate stream
EmittedPaths == BagToSet(ev.uniq (+) ev.dup)

RecordedPaths == {e.path : e \in IndexEntries} \cup EmittedPaths

\* the input lines that name a symlink whose target is a regular file
LinksToFiles ==
    {p \in BagToSet(ev.taken) :
        /\ p \in DOMAIN FS /\ FS[p].kind = "link"
        /\ FS[p].target \in DOMAIN FS /\ FS[FS[p].target].kind = "file"}

\* with FollowSymlinks a link to a regular file is recorded and emitted
\* under the path of its target and never under its own path
C22_Followed ==
    opts.FollowSymlinks =>
        /\ \A p \in RecordedPaths : FS[p].kind # "link"
        /\ sup.pc = "done" =>
              \A p \in LinksToFiles :
                  FS[p].target \in {e.path : e \in IndexEntries} \cap EmittedPaths

\* without FollowSymlinks a link is recorded under its own path
C22_OwnPath ==
    (~opts.FollowSymlinks /\ sup.pc = "done") =>
        \A p \in LinksToFiles :
            \/ p \in {e.path : e \in IndexEntries} \cap EmittedPaths
            \/ \E i \in 1..Len(sup.errors) : sup.errors[i][2] = p

\* without FollowSymlinks the target of a link is not read: the digest
\* recorded for the link is not the digest of the content of its target
C22_TargetNotRead ==
    ~opts.FollowSymlinks =>
        \A e \in IndexEntries :
            FS[e.path].kind = "link" => e.sum # Sha1(FS[FS[e.path].target].content)

\* C22: the path recorded and emitted for a regular file is the input path;
\* with FollowSymlinks a symlink to a regular file is recorded and emitted
\* under the path of the link target and never under the path of the link;
\* without FollowSymlinks a symlink is recorded under its own path and its
\* target is never read.
C22_PathRecorded ==
    /\ \A p \in BagToSet(ev.taken) :
          (sup.pc = "done" /\ p \in DOMAIN FS /\ FS[p].kind = "file") =>
              p \in {e.path : e \in IndexEntries} \cap EmittedPaths
    /\ C22_Followed
    /\ C22_OwnPath
    /\ C22_TargetNotRead

(***************************************************************************)
(* Claims about WriteAllDup, checked under SpecWrite.                      *)
(***************************************************************************)

\* a comes before b, or is b, in lexicographic order
LexLeq(a, b) ==
    LET both == 1..(IF Len(a) < Len(b) THEN Len(a) ELSE Len(b))
        diffs == {i \in both : a[i] # b[i]}
    IN  IF diffs = {} THEN Len(a) <= Len(b)
        ELSE LET i == CHOOSE k \in diffs : \A j \in diffs : k <= j IN a[i] < b[i]

\* g is the group of the bucket files of digest d: the digest line, then one
\* line for each file of the bucket, the paths ascending
IsGroupOf(g, d, files) ==
    /\ Len(g) = Len(files) + 1
    /\ g[1] = <<"sum", d>>
    /\ \A i \in 2..Len(g) : g[i][1] = "path"
    /\ SeqToBag([i \in 1..Len(files) |-> g[i + 1][2]])
         = SeqToBag([i \in 1..Len(files) |-> files[i].path])
    /\ \A i \in 2..(Len(g) - 1) : LexLeq(g[i][2], g[i + 1][2])

RECURSIVE GroupsInOrder(_, _, _)
\* lines is made of the groups of the digests of order, one after the other
GroupsInOrder(lines, order, mm) ==
    IF order = << >> THEN lines = << >>
    ELSE LET n == Len(mm[Head(order)]) + 1 IN
         /\ Len(lines) >= n
         /\ IsGroupOf(SubSeq(lines, 1, n), Head(order), mm[Head(order)])
         /\ GroupsInOrder(SubSeq(lines, n + 1, Len(lines)), Tail(order), mm)

\* the digests with two files or more
DupSums(mm) == {d \in DOMAIN mm : Len(mm[d]) >= 2}

\* C24: a call of WriteAllDup whose writer did not fail has written, for the
\* index it saw, one group for each bucket of two files or more and nothing
\* for the other buckets; a group is the digest line followed by one line
\* per file of the bucket, the paths in ascending lexicographic order.  The
\* call leaves the index and its counters as they were.
C24_DupGroups ==
    /\ [](wout.called /\ ~wout.err =>
            \E o \in [1..Cardinality(DupSums(wout.at)) -> DupSums(wout.at)] :
                /\ \A i, j \in DOMAIN o : i # j => o[i] # o[j]
                /\ GroupsInOrder(wout.lines, o, wout.at))
    /\ [][wout' # wout => (m' = m /\ r' = r)]_vars

\* a call that wrote a bucket stored in descending order of its paths, while
\* another bucket has one file
C24_Witness ==
    /\ wout.called /\ ~wout.err
    /\ \E d \in DupSums(wout.at) :
          ~LexLeq(wout.at[d][1].path, wout.at[d][2].path)
    /\ \E d \in DOMAIN wout.at : Len(wout.at[d]) = 1
    /\ Len(wout.lines) = 3

(***************************************************************************)
(* The sizes of the worker pools (src/unnamed/part_001:202-210,            *)
(* src/bufferpool.go:204-210): the value of GOMAXPROCS is fixed at the     *)
(* start, then Filter or FilterDir builds its components.                  *)
(***************************************************************************)
\* the greater of maxProcs*n/d and 1; the division of two ints truncates
ratioMaxProcsCeil(n, d) ==
    LET x == (maxProcs * n + d - 1) \div d IN IF x >= 1 THEN x ELSE 1

ratioMaxProcs(n, d) ==
    LET x == (maxProcs * n) \div d IN IF x >= 1 THEN x ELSE 1

\* Filter: newChanFilter(readLines(r), maxProcs, opts)
NewFilter ==
    /\ procs.mode = "none"
    /\ procs' = [mode |-> "stream", walkers |-> 0, hashers |-> maxProcs]
    /\ UNCHANGED <<sumsVars, appVars, pipeVars, dirVars, cn>>
    /\ UNCHANGED <<rin, rout, wout, maxProcs, fs>>

\* newDirFilter: d.r = newDirReader(path, ratioMaxProcs(1, 4), opts)
NewDirReader ==
    /\ procs.mode = "none"
    /\ procs' = [mode |-> "dirReader", walkers |-> ratioMaxProcs(1, 4), hashers |-> 0]
    /\ UNCHANGED <<sumsVars, appVars, pipeVars, dirVars, cn>>
    /\ UNCHANGED <<rin, rout, wout, maxProcs, fs>>

\* newDirFilter: d.f = newChanFilter(d.r.out, ratioMaxProcs(3, 4), opts)
NewDirChanFilter ==
    /\ procs.mode = "dirReader"
    /\ procs' = [procs EXCEPT !.mode = "dir", !.hashers = ratioMaxProcs(3, 4)]
    /\ UNCHANGED <<sumsVars, appVars, pipeVars, dirVars, cn>>
    /\ UNCHANGED <<rin, rout, wout, maxProcs, fs>>

InitProcs ==
    /\ m = NewSumsM
    /\ r = NoStats
    /\ mu = 0
    /\ InitApp
    /\ PipeNew(NoOpts, "startF")
    /\ DirIdle
    /\ rin = << >>
    /\ rout = << >>
    /\ wout = NoOutput
    /\ maxProcs \in 1..MaxParallel
    /\ procs = NoProcs
    /\ fs = FS

NextProcs ==
    \/ NewFilter
    \/ NewDirReader
    \/ NewDirChanFilter

SpecProcs == InitProcs /\ [][NextProcs]_vars

(***************************************************************************)
(* Claims about the pool sizes, checked under SpecProcs.                   *)
(***************************************************************************)
AtLeastOne(x) == IF x >= 1 THEN x ELSE 1

\* the least k with d*k >= a, and the greatest k with d*k <= a
CeilOf(a, d) == CHOOSE k \in 0..a : d * k >= a /\ \A j \in 0..a : d * j >= a => k <= j
FloorOf(a, d) == CHOOSE k \in 0..a : d * k <= a /\ \A j \in 0..a : d * j <= a => j <= k

\* C30 as stated: directory mode starts max(1, ceil(P/4)) walker workers and
\* max(1, ceil(3P/4)) hashing workers, stream mode P hashing workers.
C30_Original ==
    /\ procs.mode \in {"dirReader", "dir"} => procs.walkers = AtLeastOne(CeilOf(maxProcs, 4))
    /\ procs.mode = "dir" => procs.hashers = AtLeastOne(CeilOf(3 * maxProcs, 4))
    /\ procs.mode = "stream" => procs.hashers = maxProcs

\* C30: for every P >= 1 directory mode starts max(1, floor(P/4)) walker
\* workers and max(1, floor(3P/4)) hashing workers, and stream mode starts P
\* hashing workers.
C30_PoolSizes ==
    /\ procs.mode \in {"dirReader", "dir"} => procs.walkers = AtLeastOne(FloorOf(maxProcs, 4))
    /\ procs.mode = "dir" => procs.hashers = AtLeastOne(FloorOf(3 * maxProcs, 4))
    /\ procs.mode = "stream" => procs.hashers = maxProcs

\* six processors: one walker and four hashers, where rounding up gives 2 and 5
C30_Witness ==
    /\ maxProcs = 6
    /\ procs = [mode |-> "dir", walkers |-> 1, hashers |-> 4]

(***************************************************************************)
(* main (src/cmd/dedup/main.go:126-151): what the command does with the    *)
(* index and the error that Filter or FilterDir returned.                  *)
(***************************************************************************)
\* lines 132-133, 146-151: the exit status
MainExitStatus(errors, stats) ==
    IF errors # << >> THEN 1
    ELSE IF stats.NumDupFiles > 0 THEN 1
    ELSE 0

\* lines 132-145: WriteAllDup(os.Stdout) is reached only past the exit of
\* line 133
MainPrintsAllDup(printAllDup, errors) ==
    IF errors # << >> THEN FALSE ELSE printAllDup

\* C25: when the run has returned and the caller's cancel channel was never
\* closed, the exit status is 0 exactly if the index counts no duplicate
\* file and no worker raised an error.
C25_ExitStatus ==
    (sup.pc = "done" /\ ~extCancel) =>
        (MainExitStatus(sup.errors, r) = 0
            <=> (r.NumDupFiles = 0 /\ ev.raised = EmptyBag))

\* C26: with -D and without -e or -b, when a run without cancellation has
\* returned, the command goes on to print the duplicate summary, whether or
\* not errors occurred.
C26_SummaryPrinted ==
    (sup.pc = "done" /\ NoCancelRun) => MainPrintsAllDup(TRUE, sup.errors)

(***************************************************************************)
(* Claims about cancellation and the work counter of the walker, checked   *)
(* under SpecDir.                                                          *)
(***************************************************************************)

\* C27: a call of enqueue that makes its choice when r.cancel is closed
\* discards the directory: the queue is left as it was and the call's
\* r.busyDirs.Add(1) is undone (for the root the Add is a step of its own,
\* for a sub-directory it is part of the step), so nothing is processed.
C27_DiscardAfterCancel ==
    [][/\ \A k \in Walkers :
            (wk[k].pc = "enqueue" /\ SignalClosed(cancelR) /\ wk'[k].pc # "enqueue") =>
                (queue' = queue /\ busyDirs' = busyDirs /\ wk'[k].pc = "loop")
       /\ (starter = "select" /\ SignalClosed(cancelR) /\ starter' # "select") =>
                (queue' = queue /\ busyDirs' = busyDirs - 1)]_vars

\* the calls of handle that have begun and not returned: the frames on the
\* call stacks of the workers, and a call that has not yet made its frame
HandlersRunning ==
    SumOver([k \in Walkers |-> Len(wk[k].stack) + (IF wk[k].pc = "handle" THEN 1 ELSE 0)],
            Walkers)

\* C28: r.busyDirs is never negative and never below the number of
\* directories queued or being handled; r.done, r.out and r.err are closed
\* only when the queue is empty and no handle is running; and when a run
\* without cancellation has returned, the streams are closed, so no
\* directory was left on the queue or in a handle.
C28_WorkCounter ==
    /\ busyDirs >= 0
    /\ busyDirs >= Len(queue) + HandlersRunning
    /\ (closed.done \/ inClosed \/ closed.rerr) =>
            (queue = << >> /\ HandlersRunning = 0 /\ busyDirs = 0)
    /\ (sup.pc = "done" /\ NoCancelDirRun) =>
            (closed.done /\ inClosed /\ queue = << >> /\ HandlersRunning = 0)

\* a recursive walk of d has returned: its sub-directories were queued or
\* handled by the caller itself, and the files below them were sent
C28_Witness ==
    /\ sup.pc = "done" /\ NoCancelDirRun
    /\ root = <<"d">> /\ opts.Recursive
    /\ ev.self > 0
    /\ closed.done /\ busyDirs = 0
    /\ BagToSet(ev.taken) = {<<"d", "e">>, <<"d", "s", "c">>, <<"d", "u", "c">>}

\* ---- the index after the run has returned

\* run has handed f.Sums() back to the caller of Filter or FilterDir
RunReturned == sup.pc = "done"

\* C31: once run has returned the index, on any exit path (completion,
\* external cancel, ExitOnError, ExitOnDup), every hasher has left its loop
\* and no step changes the buckets or the counters of the index again.
C31_IndexFrozen ==
    /\ [](RunReturned => AllWorkersExited)
    /\ [][RunReturned => (m' = m /\ r' = r)]_vars

\* a cancelled run has returned an index that already holds a file
C31_Witness ==
    /\ RunReturned
    /\ SignalClosed(cancelF)
    /\ DOMAIN m # {}
    /\ AllWorkersExited

\* ---- paths within a bucket

\* the canonical paths stored under digest d, in the order of insertion
BucketPaths(d) == [i \in 1..Len(m[d]) |-> m[d][i].path]

\* no path occurs at two positions of sequence s
NoRepeat(s) == \A i, j \in 1..Len(s) : i # j => s[i] # s[j]

\* C32: no bucket of the index holds the same canonical path twice, so a
\* path is counted and emitted as duplicate only after a file with another
\* canonical path and the same digest; also when the input lists a path
\* twice or a followed link resolves to a file that is listed as well.
C32_NoPathTwice ==
    /\ \A d \in DOMAIN m : NoRepeat(BucketPaths(d))
    /\ r.NumDupFiles > 0 => \E d \in DOMAIN m : 
            Cardinality({BucketPaths(d)[i] : i \in 1..Len(m[d])}) > 1

\* ---- the order in which the supervisor sees the events of a digest

\* the unique events run has taken from f.Uniq(): the channel is a FIFO
\* buffer, so they are the paths sent on it less the paths still in it
SupUniqTaken == ev.uniq (-) SeqToBag(uniq)

\* the duplicate events run has taken from f.Dup()
SupDupTaken == ev.dup (-) SeqToBag(dup)

\* C33 as stated: the supervisor has received a duplicate event for a
\* digest only if it has received the unique event for that digest.
C33_Original ==
    \A d \in AllDigests :
        EventsFor(SupDupTaken, d) > 0 => EventsFor(SupUniqTaken, d) > 0

\* C33 (amended): the supervisor has received a duplicate event for a digest
\* only if the file classified unique for it is already in the index, and it
\* has received fewer duplicate events for the digest than the bucket has
\* files; the unique event itself may still be on its way.
C33_UniqueStoredBefore ==
    \A d \in AllDigests :
        EventsFor(SupDupTaken, d) > 0 =>
            /\ BucketLen(d) >= 2
            /\ EventsFor(SupDupTaken, d) <= BucketLen(d) - 1

\* the supervisor has the duplicate event of a digest in hand while the
\* unique event of that digest has been sent but not yet received, the
\* bucket holding two different paths
C33_Witness ==
    \E d \in AllDigests :
        /\ EventsFor(SupDupTaken, d) = 1
        /\ EventsFor(SupUniqTaken, d) = 0
        /\ EventsFor(ev.uniq, d) = 1
        /\ BucketLen(d) = 2
        /\ m[d][1].path # m[d][2].path

\* ---- channels and wait-counters

\* a goroutine stands at a send on r.out (emit)
AtSendOut == \E k \in Walkers : wk[k].pc = "emit"

\* a goroutine stands at a send on r.queue (enqueue)
AtSendQueue == starter = "select" \/ \E k \in Walkers : wk[k].pc = "enqueue"

\* a goroutine stands at a send on r.err (the walker's emitErr)
AtSendWalkErr == \E k \in Walkers : wk[k].pc = "emitErr"

\* a goroutine stands at a send on f.dup, on f.err
AtSendDup == \E w \in Workers : hw[w].pc = "emitDup"

AtSendErr == \E w \in Workers : hw[w].pc = "emitErr"

\* a multiplex goroutine stands at out <- err
AtSendMerged == \E i \in Sources : mux[i].pc = "send"

\* readLines stands at c <- line
AtSendLine == src.pc = "send"

\* no goroutine stands at a send on a channel that has been closed
NoSendOnClosed ==
    /\ inClosed => ~(AtSendOut \/ AtSendQueue \/ AtSendLine)
    /\ closed.rerr => ~AtSendWalkErr
    /\ closed.dup => ~AtSendDup
    /\ closed.err => ~AtSendErr
    /\ closed.merged => ~AtSendMerged

\* no wait-counter is below zero
CountersNotNegative ==
    /\ busyProcs >= 0
    /\ busyProcsR >= 0
    /\ busyDirs >= 0
    /\ merger.wg >= 0

\* a step that executes a close statement finds its channel open
ClosesOpenChannel ==
    /\ (starter = "waitDirs" /\ starter' = "waitProcs") => ~closed.done
    /\ (starter = "waitProcs" /\ starter' = "closeErr") => ~inClosed
    /\ (starter = "closeErr" /\ starter' = "done") => ~closed.rerr
    /\ (closer = "wait" /\ closer' = "closeErr") => ~closed.dup
    /\ (closer = "closeErr" /\ closer' = "done") => ~closed.err
    /\ (merger.pc = "wait" /\ merger'.pc = "done") => ~closed.merged
    /\ (src.pc = "scan" /\ src'.pc = "closed") => ~inClosed
    /\ cancelF' # cancelF => ~SignalClosed(cancelF)
    /\ cancelR' # cancelR => ~SignalClosed(cancelR)

\* C34: in every interleaving of Start, the workers, the supervisor and the
\* calls of Cancel, no goroutine sends on a closed channel, no channel
\* (the signals included) is closed twice, and no wait-counter goes below
\* zero.
C34_ChannelsSafe ==
    /\ [](NoSendOnClosed /\ CountersNotNegative /\ cancelF <= 1 /\ cancelR <= 1)
    /\ [][ClosesOpenChannel]_vars

\* a cancelled run in which values were sent on the walker's and the
\* hashers' channels and all of them have been closed since
C34_Witness ==
    /\ SignalClosed(cancelF) /\ SignalClosed(cancelR)
    /\ closed.done /\ inClosed /\ closed.rerr
    /\ closed.dup /\ closed.err /\ closed.merged
    /\ ev.taken # EmptyBag
    /\ ev.dup # EmptyBag
    /\ ev.err # EmptyBag
    /\ busyProcs = 0 /\ busyProcsR = 0 /\ busyDirs = 0 /\ merger.wg = 0

====
